---- MODULE Spec2Model ----
(***************************************************************************)
(* LLMTranslator: the multi-engine translation arbitrator                  *)
(* (core/analyzers/multi_engine_translator.py), the mixed-language         *)
(* processor it consults, and the knowledge-base pipeline                  *)
(* (core/analyzers/knowledge_base: scene_detector, retriever, learner,     *)
(* loader).                                                                *)
(*                                                                         *)
(* A text is a sequence of Unicode code points (Python str); the comments  *)
(* beside the tables give the characters.  A score is a fixed-point        *)
(* number with One = 1.0, so 0.2 is 2000 and 0.15 is 1500; the arithmetic  *)
(* is exact where Python's is binary floating point.                       *)
(***************************************************************************)
EXTENDS Integers, Sequences, FiniteSets, TLC

VARIABLES
    pc,             \* position of the request being served
    text,           \* original_text of the request
    deepl_out,      \* outcome of DeepLClient.translate_text
    deepseek_out,   \* outcome of EnhancedDeepSeekClient.translate_text_with_analysis
    rubric_out,     \* outcome of the rubric call _call_deepseek_api(analysis_prompt)
    result,         \* the dict translate_with_dual_engines returns
    arb,            \* what the selection looked at: features, scores, calls made
    scene_call,     \* a call of SceneDetector.detect_scenes: its text and its result
    files,          \* the knowledge-base directory: scene -> <scene>.json
    retriever_kb,   \* KnowledgeRetriever.loader._knowledge_bases
    retr_call,      \* a call of KnowledgeRetriever.retrieve: arguments and result
    learner_kb,     \* KnowledgeBaseLearner.loader._knowledge_bases
    pending_updates,\* KnowledgeBaseLearner.pending_updates, in insertion order
    auto_save,      \* KnowledgeBaseLearner.auto_save
    calls_made,     \* learn_from_translation and add_expression_manually calls so far
    learned,        \* the expression the last learn_from_translation calls detected
    last_flush,     \* what the save_updates of the last operation did
    guide_call,     \* the calls of get_translation_guidelines: arguments and results
    prompt_call,    \* a call of RAGPromptEnhancer.generate_enhanced_prompt
    http_call,      \* a call of a provider adapter, one HTTP attempt at a time
    loader_call,    \* the last load of the loader and the directory as it saw it
    flush_procs,    \* two learner processes in save_updates on one directory
    mixed_call,     \* the last preprocess_for_translation call
    chunk_call      \* the last split_text_into_chunks call

arbVars == <<pc, text, deepl_out, deepseek_out, rubric_out, result, arb>>

sceneVars == <<scene_call>>

retrVars == <<retriever_kb, retr_call>>

learnVars == <<learner_kb, pending_updates, auto_save, calls_made, learned, last_flush>>

\* the calls of the other components
moreVars == <<guide_call, prompt_call, http_call, loader_call, flush_procs, mixed_call, chunk_call>>

vars == <<arbVars, sceneVars, files, retrVars, learnVars, moreVars>>

\* what the arbitrator never touches
notArbVars == <<sceneVars, files, retrVars, learnVars, moreVars>>

(***************************************************************************)
(* Fixed point and strings                                                 *)
(***************************************************************************)
One == 100 * 100

Pct(n) == n * 100          \* n hundredths: Pct(70) is 0.7

Min(a, b) == IF a <= b THEN a ELSE b

Abs(a) == IF a >= 0 THEN a ELSE 0 - a

\* Python's  kw in text
Contains(t, kw) ==
    \E i \in 0..(Len(t) - Len(kw)) : \A j \in 1..Len(kw) : t[i + j] = kw[j]

\* any(indicator in text for indicator in indicators)
AnyIn(indicators, t) ==
    \E k \in 1..Len(indicators) : Contains(t, indicators[k])

RECURSIVE SeqsUpTo(_, _)
\* every sequence over S of length at most n
SeqsUpTo(S, n) ==
    IF n = 0 THEN {<<>>}
    ELSE LET shorter == SeqsUpTo(S, n - 1)
         IN shorter \cup {Append(s, x) : s \in {q \in shorter : Len(q) = n - 1}, x \in S}

(***************************************************************************)
(* Knowledge-base files and documents                                      *)
(***************************************************************************)
\* the scene codes; <scene>.json is the scene's file
SceneNames ==
    {"daily_life", "business", "technology", "sports", "medical", "academic"}

\* an entry of a document's "expressions"
Expression(source, variants) == [source |-> source, variants |-> variants]

\* a file holding a JSON document with "expressions", "keywords" and an
\* empty "translation_guidelines"
Doc(expressions, keywords) ==
    [kind |-> "doc", expressions |-> expressions, keywords |-> keywords,
     translation_guidelines |-> <<>>]

\* no such file
MissingFile ==
    [kind |-> "missing", expressions |-> <<>>, keywords |-> <<>>,
     translation_guidelines |-> <<>>]

\* a file json.load raises on
CorruptFile ==
    [kind |-> "corrupt", expressions |-> <<>>, keywords |-> <<>>,
     translation_guidelines |-> <<>>]

\* an empty directory
NoFiles == [scene \in SceneNames |-> MissingFile]

\* a load that keeps the entry of a file that does not parse
load_all_keep_unparsed(fs) ==
    [scene \in SceneNames |-> IF fs[scene].kind # "missing" THEN fs[scene] ELSE MissingFile]

\* _load_all_knowledge_bases: every readable *.json, keyed by its stem; a file
\* that fails to load is skipped.  MissingFile stands for an absent key.
load_all_knowledge_bases(fs) ==
    [scene \in SceneNames |-> IF fs[scene].kind = "doc" THEN fs[scene] ELSE MissingFile]

\* no phrase learned yet
NoLearned == [text |-> <<>>, source |-> <<>>, scene |-> "", times |-> 0]

\* the last operation did not call save_updates
NoFlush ==
    [called |-> FALSE, ok |-> FALSE, staged |-> <<>>, failed |-> "",
     written |-> {}, damaged |-> {}]

\* get_translation_guidelines has not been called
NoGuidelines ==
    [calls |-> 0, scenes |-> <<>>, result |-> <<>>,
     previous_scenes |-> <<>>, previous_result |-> <<>>]

\* no learner process is in save_updates
NoFlushProcs ==
    [p \in {"p1", "p2"} |->
        [pc |-> "idle", staged |-> Expression(<<>>, <<>>), knowledge_base |-> MissingFile,
         ok |-> FALSE, saw |-> {}, order |-> 0, raced |-> FALSE, snapshot |-> MissingFile]]

\* the loader has not been constructed
NoLoad == [op |-> "none", seen |-> NoFiles]

\* no provider adapter has been called
NoHttpCall ==
    [pc |-> "idle", client |-> "none", target_supported |-> TRUE, attempt |-> 0,
     outcomes |-> <<>>, sleeps |-> <<>>, value |-> "none"]

\* generate_enhanced_prompt has not been called
NoPrompt ==
    [pc |-> "idle", text |-> <<>>, use_rag |-> FALSE, top_k |-> 0, prompt |-> <<>>,
     rag_prompt |-> <<>>, final |-> <<>>]

\* preprocess_for_translation has not been called
NoMixedCall ==
    [pc |-> "idle", text |-> <<>>, is_mixed_language |-> FALSE, chinese_words |-> <<>>]

\* split_text_into_chunks has not been called
NoChunkCall == [pc |-> "idle", text |-> <<>>, chunks |-> <<>>]

\* retrieve has not been called
NoRetrieve ==
    [pc |-> "idle", text |-> <<>>, scenes |-> <<>>, scenes_given |-> FALSE,
     top_k |-> 0, min_confidence |-> 0, results |-> <<>>]

(***************************************************************************)
(* MixedLanguageProcessor                                                  *)
(***************************************************************************)
IsAsciiLetter(c) == (c >= 65 /\ c <= 90) \/ (c >= 97 /\ c <= 122)

\* english_patterns: [A-Z]{2,6}, [A-Z][a-z]+[A-Z][a-z]*, [a-zA-Z]+ .  Every match
\* of the first two lies inside a match of the third, so the positions the
\* three mark as English are the positions of the ASCII letters.
english_positions(t) == {i \in 1..Len(t) : IsAsciiLetter(t[i])}

\* chinese_patterns: [\u4e00-\u9fff]+, [\u3400-\u4dbf]+, [\u20000-\u2a6df]+ .
\* Python's re reads four hex digits after \u, so the third class is the
\* character U+2000, the range from "0" (U+0030) to U+2A6D, and "f".
InChinesePattern(p, c) ==
    CASE p = 1 -> c >= 19968 /\ c <= 40959
      [] p = 2 -> c >= 13312 /\ c <= 19903
      [] p = 3 -> c = 8192 \/ (c >= 48 /\ c <= 10861) \/ c = 102

\* re.finditer(pattern, text) for a pattern [class]+ : the maximal runs,
\* as <<first, last>> positions
PatternRuns(p, t) ==
    {r \in (1..Len(t)) \X (1..Len(t)) :
        /\ r[1] <= r[2]
        /\ \A i \in r[1]..r[2] : InChinesePattern(p, t[i])
        /\ (r[1] = 1 \/ ~InChinesePattern(p, t[r[1] - 1]))
        /\ (r[2] = Len(t) \/ ~InChinesePattern(p, t[r[2] + 1]))}

\* the matches kept as Chinese segments: those sharing no position with an
\* English match
chinese_matches(t) ==
    {r \in PatternRuns(1, t) \cup PatternRuns(2, t) \cup PatternRuns(3, t) :
        (r[1]..r[2]) \cap english_positions(t) = {}}

\* the texts of the Chinese segments, in the order of their positions
chinese_words(t) ==
    LET runs == chinese_matches(t)
        Nth(k) == CHOOSE r \in runs : Cardinality({q \in runs : q[1] < r[1]}) = k - 1
    IN [k \in 1..Cardinality(runs) |-> SubSeq(t, Nth(k)[1], Nth(k)[2])]

preprocess_for_translation(t) ==
    LET has_english == english_positions(t) # {}
        has_chinese == chinese_matches(t) # {}
    IN [is_mixed_language |-> has_english /\ has_chinese,
        has_english |-> has_english,
        has_chinese |-> has_chinese,
        chinese_words |-> chinese_words(t)]

(***************************************************************************)
(* MultiEngineTranslator._analyze_text_features                            *)
(***************************************************************************)
cultural_indicators ==
    <<
       <<20200, 23574, 20799>>,      \* 仨尖儿
       <<22352, 49, 49, 36335>>,     \* 坐11路
       <<25171, 37233, 27833>>,      \* 打酱油
       <<21507, 29916>>,             \* 吃瓜
       <<36538, 24179>>,             \* 躺平
       <<20869, 21367>>,             \* 内卷
       <<20961, 23572, 36187>>,      \* 凡尔赛
       <<121, 121, 100, 115>>,       \* yyds
       <<32477, 32477, 23376>>,      \* 绝绝子
       <<30772, 38450>>              \* 破防
    >>

technical_indicators ==
    <<
       <<65, 80, 73>>,               \* API
       <<72, 84, 84, 80>>,           \* HTTP
       <<74, 83, 79, 78>>,           \* JSON
       <<88, 77, 76>>,               \* XML
       <<25968, 25454, 24211>>,      \* 数据库
       <<31639, 27861>>,             \* 算法
       <<32534, 31243>>,             \* 编程
       <<20195, 30721>>,             \* 代码
       <<67, 80, 85>>,               \* CPU
       <<71, 80, 85>>,               \* GPU
       <<65, 73>>,                   \* AI
       <<77, 76>>,                   \* ML
       <<78, 76, 80>>                \* NLP
    >>

formal_indicators ==
    <<
       <<35831>>,                    \* 请
       <<24744>>,                    \* 您
       <<25964>>,                    \* 敬
       <<35880>>,                    \* 谨
       <<27492, 33268>>,             \* 此致
       <<25964, 31036>>              \* 敬礼
    >>

analyze_text_features(t) ==
    LET mixed_analysis == preprocess_for_translation(t)
        cultural == AnyIn(cultural_indicators, t)
    IN [length |-> Len(t),
        complexity |-> IF Len(t) > 200 THEN "complex"
                       ELSE IF Len(t) > 50 THEN "medium" ELSE "simple",
        cultural_elements |-> cultural,
        technical_terms |-> AnyIn(technical_indicators, t),
        idioms |-> cultural,
        formality |-> IF AnyIn(formal_indicators, t) THEN "formal" ELSE "neutral",
        mixed_language |-> mixed_analysis.is_mixed_language]

(***************************************************************************)
(* Provider and rubric outcomes                                            *)
(*                                                                         *)
(* A call ends with a text, with None, or by raising.  A rubric response   *)
(* is the sequence of its lines; a line is read by _parse_quality_scores   *)
(* as one of                                                               *)
(*   "DeepL"    it contains the DeepL header                               *)
(*   "DeepSeek" it contains the DeepSeek header                            *)
(*   "score"    it has a ':' and names dimension dim; ok says whether      *)
(*              float(line.split(':')[1].strip()) succeeds, val its value  *)
(*   "other"    anything else                                              *)
(***************************************************************************)
TextOut(v) == [kind |-> "text", val |-> v]

NoneOut == [kind |-> "none", val |-> ""]

RaiseOut == [kind |-> "raise", val |-> ""]

NotCalled == [kind |-> "not_called", val |-> ""]

\* Python truthiness of an Optional[str]
Truthy(o) == o.kind = "text" /\ o.val # ""

Dimensions == <<"accuracy", "fluency", "cultural_adaptation", "completeness">>

HeaderLine(engine) == [kind |-> engine, dim |-> "", ok |-> TRUE, val |-> 0]

ScoreLine(dim, v) == [kind |-> "score", dim |-> dim, ok |-> TRUE, val |-> v]

BadScoreLine(dim) == [kind |-> "score", dim |-> dim, ok |-> FALSE, val |-> 0]

OtherLine == [kind |-> "other", dim |-> "", ok |-> TRUE, val |-> 0]

RubricText(lines) == [kind |-> "text", lines |-> lines]

RubricNone == [kind |-> "none", lines |-> <<>>]

RubricRaise == [kind |-> "raise", lines |-> <<>>]

RubricNotCalled == [kind |-> "not_called", lines |-> <<>>]

(***************************************************************************)
(* MultiEngineTranslator: quality scores                                   *)
(***************************************************************************)
Engines == {"deepl", "deepseek"}

EngineScore(a, f, c, m, o) ==
    [accuracy |-> a, fluency |-> f, cultural_adaptation |-> c,
     completeness |-> m, overall |-> o]

\* accuracy * 0.3 + fluency * 0.25 + cultural_adaptation * 0.25 + completeness * 0.2
WeightedOverall(s) ==
    (s.accuracy * 3000 + s.fluency * 2500
        + s.cultural_adaptation * 2500 + s.completeness * 2000) \div One

RECURSIVE ParseLines(_, _, _)
\* the loop over the lines: the scores so far, and whether float() raised
ParseLines(lines, scores, current_engine) ==
    IF lines = <<>> THEN [scores |-> scores, raised |-> FALSE]
    ELSE LET line == Head(lines)
         IN IF line.kind = "DeepL"
                THEN ParseLines(Tail(lines), scores, "deepl")
            ELSE IF line.kind = "DeepSeek"
                THEN ParseLines(Tail(lines), scores, "deepseek")
            ELSE IF current_engine # "" /\ line.kind = "score"
                THEN IF line.ok
                     THEN ParseLines(Tail(lines),
                              [scores EXCEPT ![current_engine][line.dim] = line.val],
                              current_engine)
                     ELSE [scores |-> scores, raised |-> TRUE]
            ELSE ParseLines(Tail(lines), scores, current_engine)

parse_quality_scores(lines) ==
    LET half == Pct(50)
        scores == [e \in Engines |-> EngineScore(half, half, half, half, half)]
        parsed == ParseLines(lines, scores, "")
    IN IF parsed.raised
       THEN parsed.scores           \* except: the overall scores are not recomputed
       ELSE [e \in Engines |->
                [parsed.scores[e] EXCEPT !.overall = WeightedOverall(parsed.scores[e])]]

default_quality_scoring(text_features) ==
    LET scores == [deepl |-> EngineScore(Pct(70), Pct(80), Pct(60), Pct(70), Pct(70)),
                   deepseek |-> EngineScore(Pct(70), Pct(70), Pct(80), Pct(70), Pct(70))]
        s1 == IF text_features.technical_terms
              THEN [scores EXCEPT !.deepl.accuracy = @ + Pct(10),
                                  !.deepl.overall = @ + Pct(10)]
              ELSE IF text_features.cultural_elements
              THEN [scores EXCEPT !.deepseek.cultural_adaptation = @ + Pct(10),
                                  !.deepseek.overall = @ + Pct(10)]
              ELSE scores
    IN IF text_features.formality = "formal"
       THEN [s1 EXCEPT !.deepl.fluency = @ + Pct(10), !.deepl.overall = @ + Pct(10)]
       ELSE s1

\* the rubric call's outcome decides where the scores come from
comprehensive_quality_assessment(rubric, text_features) ==
    IF rubric.kind = "text" /\ rubric.lines # <<>>
    THEN parse_quality_scores(rubric.lines)
    ELSE default_quality_scoring(text_features)    \* None, "", or the call raised

(***************************************************************************)
(* MultiEngineTranslator: selection                                        *)
(***************************************************************************)
Decision(t, method, confidence) ==
    [text |-> t, method |-> method, confidence |-> confidence]

\* intelligent_selection with the feature rules tried before the score gap
intelligent_selection_features_first(deepl_translation, deepseek_translation, quality_scores, text_features) ==
    LET deepl_score == quality_scores.deepl.overall
        deepseek_score == quality_scores.deepseek.overall
    IN IF text_features.mixed_language
            THEN Decision(deepseek_translation, "deepseek_mixed_language", Pct(90))
       ELSE IF text_features.cultural_elements \/ text_features.idioms
            THEN Decision(deepseek_translation, "deepseek_cultural", Pct(90))
       ELSE IF text_features.technical_terms
            THEN Decision(deepl_translation, "deepl_technical", Pct(90))
       ELSE IF text_features.formality = "formal"
            THEN Decision(deepl_translation, "deepl_formal", Pct(90))
       ELSE IF Abs(deepl_score - deepseek_score) > Pct(20)
       THEN IF deepl_score > deepseek_score
            THEN Decision(deepl_translation, "deepl_selected", deepl_score)
            ELSE Decision(deepseek_translation, "deepseek_selected", deepseek_score)
       ELSE IF deepl_score >= deepseek_score
            THEN Decision(deepl_translation, "deepl_default", deepl_score)
            ELSE Decision(deepseek_translation, "deepseek_default", deepseek_score)

\* intelligent_selection with the formal rule tried before the cultural rule
\* and an exact tie going to DeepSeek
intelligent_selection_reordered(deepl_translation, deepseek_translation, quality_scores, text_features) ==
    LET deepl_score == quality_scores.deepl.overall
        deepseek_score == quality_scores.deepseek.overall
    IN IF Abs(deepl_score - deepseek_score) > Pct(20)
       THEN IF deepl_score > deepseek_score
            THEN Decision(deepl_translation, "deepl_selected", deepl_score)
            ELSE Decision(deepseek_translation, "deepseek_selected", deepseek_score)
       ELSE IF text_features.mixed_language
            THEN Decision(deepseek_translation, "deepseek_mixed_language", Pct(90))
       ELSE IF text_features.formality = "formal"
            THEN Decision(deepl_translation, "deepl_formal", Pct(90))
       ELSE IF text_features.cultural_elements \/ text_features.idioms
            THEN Decision(deepseek_translation, "deepseek_cultural", Pct(90))
       ELSE IF text_features.technical_terms
            THEN Decision(deepl_translation, "deepl_technical", Pct(90))
       ELSE IF deepl_score > deepseek_score
            THEN Decision(deepl_translation, "deepl_default", deepl_score)
            ELSE Decision(deepseek_translation, "deepseek_default", deepseek_score)

intelligent_selection(deepl_translation, deepseek_translation, quality_scores, text_features) ==
    LET deepl_score == quality_scores.deepl.overall
        deepseek_score == quality_scores.deepseek.overall
    IN IF Abs(deepl_score - deepseek_score) > Pct(20)
       THEN IF deepl_score > deepseek_score
            THEN Decision(deepl_translation, "deepl_selected", deepl_score)
            ELSE Decision(deepseek_translation, "deepseek_selected", deepseek_score)
       ELSE IF text_features.mixed_language
            THEN Decision(deepseek_translation, "deepseek_mixed_language", Pct(90))
       ELSE IF text_features.cultural_elements \/ text_features.idioms
            THEN Decision(deepseek_translation, "deepseek_cultural", Pct(90))
       ELSE IF text_features.technical_terms
            THEN Decision(deepl_translation, "deepl_technical", Pct(90))
       ELSE IF text_features.formality = "formal"
            THEN Decision(deepl_translation, "deepl_formal", Pct(90))
       ELSE IF deepl_score >= deepseek_score
            THEN Decision(deepl_translation, "deepl_default", deepl_score)
            ELSE Decision(deepseek_translation, "deepseek_default", deepseek_score)

fallback_selection(original_text, deepl_translation, deepseek_translation) ==
    IF Len(original_text) < 50
    THEN Decision(deepl_translation, "deepl_short_text", Pct(70))
    ELSE Decision(deepseek_translation, "deepseek_long_text", Pct(70))

\* what the selection looked at, before it looked at anything
NoAnalysis ==
    [scored |-> FALSE, rubric_called |-> FALSE,
     text_features |-> analyze_text_features(<<>>),
     quality_scores |-> [e \in Engines |-> EngineScore(0, 0, 0, 0, 0)]]

\* _select_best_translation, lines 109-114: the decision when at most one
\* translation is truthy
single_engine_selection(deepl, deepseek) ==
    IF Truthy(deepl) /\ ~Truthy(deepseek)
    THEN Decision(deepl.val, "deepl_only", Pct(80))
    ELSE IF Truthy(deepseek) /\ ~Truthy(deepl)
    THEN Decision(deepseek.val, "deepseek_only", Pct(80))
    ELSE Decision("", "failed", 0)

\* the result dict as constructed, before either call
InitialResult(t) ==
    [original_text |-> t,
     deepl_translation |-> NoneOut, deepseek_translation |-> NoneOut,
     best_translation |-> NoneOut, translation_method |-> "None",
     confidence |-> 0, error |-> "None"]

\* result[...] = ... for the two translations and for the decision
WithTranslations(res, deepl, deepseek) ==
    [res EXCEPT !.deepl_translation = deepl, !.deepseek_translation = deepseek]

WithDecision(res, decision) ==
    [res EXCEPT !.best_translation = TextOut(decision.text),
                !.translation_method = decision.method,
                !.confidence = decision.confidence]

(***************************************************************************)
(* The requests the arbitrator is run on                                   *)
(***************************************************************************)
ArbMaxTextLen == 3

MaxRubricLines == 2

MaxRubricTextLen == 2

\* A, and the characters of the markers 请 (formal), 吃瓜 (cultural) and
\* 代码 (technical)
ArbAlphabet == {65, 35831, 21507, 29916, 20195, 30721}

ArbTexts == SeqsUpTo(ArbAlphabet, ArbMaxTextLen)

DeepLOutcomes == {TextOut("Hello"), TextOut(""), NoneOut, RaiseOut}

DeepSeekOutcomes == {TextOut("Hi there"), TextOut(""), NoneOut, RaiseOut}

\* 0.0 and the out-of-range 5.0
RubricValues == {0, Pct(500)}

RubricLines ==
    {HeaderLine("DeepL"), HeaderLine("DeepSeek"), OtherLine}
        \cup {ScoreLine(Dimensions[d], v) : d \in 1..4, v \in RubricValues}
        \cup {BadScoreLine(Dimensions[d]) : d \in 1..4}

RubricResponses == {RubricText(ls) : ls \in SeqsUpTo(RubricLines, MaxRubricLines)}

\* the outcomes of the rubric call: None, an exception, the empty string, and,
\* for the texts of up to MaxRubricTextLen characters, every response
RubricOutcomes(t) ==
    {RubricNone, RubricRaise, RubricText(<<>>)}
        \cup (IF Len(t) <= MaxRubricTextLen THEN RubricResponses ELSE {})

(***************************************************************************)
(* State machine of the arbitrator.  pc is "start" before a request,       *)
(* "rubric_call" while _comprehensive_quality_assessment waits for         *)
(* _call_deepseek_api, and "done" when translate_with_dual_engines has     *)
(* returned.                                                               *)
(***************************************************************************)
\* a translator, a scene detector: nothing has been called yet
Init ==
    /\ pc = "start"
    /\ text = <<>>
    /\ deepl_out = NotCalled
    /\ deepseek_out = NotCalled
    /\ rubric_out = RubricNotCalled
    /\ result = InitialResult(<<>>)
    /\ arb = NoAnalysis
    /\ scene_call = [pc |-> "idle", text |-> <<>>, result |-> <<>>]
    /\ files = NoFiles
    /\ retriever_kb = NoFiles
    /\ retr_call = NoRetrieve
    /\ learner_kb = NoFiles
    /\ pending_updates = <<>>
    /\ auto_save = FALSE
    /\ calls_made = 0
    /\ learned = NoLearned
    /\ last_flush = NoFlush
    /\ guide_call = NoGuidelines
    /\ prompt_call = NoPrompt
    /\ http_call = NoHttpCall
    /\ loader_call = NoLoad
    /\ flush_procs = NoFlushProcs
    /\ mixed_call = NoMixedCall
    /\ chunk_call = NoChunkCall

\* translate_with_dual_engines from its first line to its return or, when
\* both translations are truthy, to the rubric call
translate_with_dual_engines ==
    /\ pc = "start"
    /\ \E t \in ArbTexts, deepl \in DeepLOutcomes :
        \E deepseek \in (IF deepl.kind = "raise" THEN {NotCalled} ELSE DeepSeekOutcomes) :
            /\ text' = t
            /\ deepl_out' = deepl
            /\ deepseek_out' = deepseek
            /\ rubric_out' = RubricNotCalled
            /\ IF deepl.kind = "raise" \/ deepseek.kind = "raise"
               THEN /\ result' = [InitialResult(t) EXCEPT !.error = "str(e)"]
                    /\ arb' = NoAnalysis
                    /\ pc' = "done"
               ELSE IF Truthy(deepl) /\ Truthy(deepseek)
               THEN /\ result' = WithTranslations(InitialResult(t), deepl, deepseek)
                    /\ arb' = [NoAnalysis EXCEPT
                                  !.text_features = analyze_text_features(t),
                                  !.rubric_called = TRUE]
                    /\ pc' = "rubric_call"
               ELSE /\ result' = WithDecision(
                                    WithTranslations(InitialResult(t), deepl, deepseek),
                                    single_engine_selection(deepl, deepseek))
                    /\ arb' = NoAnalysis
                    /\ pc' = "done"
    /\ UNCHANGED notArbVars

\* the rubric call ends; the scores, the selection and the return
rubric_call_returns ==
    /\ pc = "rubric_call"
    /\ \E rubric \in RubricOutcomes(text) :
        LET quality_scores == comprehensive_quality_assessment(rubric, arb.text_features)
        IN /\ rubric_out' = rubric
           /\ arb' = [arb EXCEPT !.scored = TRUE, !.quality_scores = quality_scores]
           /\ result' = WithDecision(result,
                            intelligent_selection(deepl_out.val, deepseek_out.val,
                                                  quality_scores, arb.text_features))
    /\ pc' = "done"
    /\ UNCHANGED <<text, deepl_out, deepseek_out>>
    /\ UNCHANGED notArbVars

NextArb == translate_with_dual_engines \/ rubric_call_returns

SpecArb == Init /\ [][NextArb]_vars

(***************************************************************************)
(* Properties of the arbitrator                                            *)
(***************************************************************************)
DeeplOverall == arb.quality_scores.deepl.overall

DeepseekOverall == arb.quality_scores.deepseek.overall

\* the returned decision is text t with confidence c
Chose(t, c) == result.best_translation = TextOut(t) /\ result.confidence = c

\* C1: with both translations present and scored, an overall-score gap above
\* 0.2 returns the higher-scoring engine's text, tagged "<engine>_selected",
\* with that engine's overall score as confidence, whatever the text features.
C1_HigherScoreSelected ==
    (pc = "done" /\ arb.scored /\ Abs(DeeplOverall - DeepseekOverall) > Pct(20))
        => IF DeeplOverall > DeepseekOverall
           THEN /\ Chose(deepl_out.val, DeeplOverall)
                /\ result.translation_method = "deepl_selected"
           ELSE /\ DeepseekOverall > DeeplOverall
                /\ Chose(deepseek_out.val, DeepseekOverall)
                /\ result.translation_method = "deepseek_selected"

\* a formal, non-mixed text (the tie-break would pick DeepL) whose DeepSeek
\* score is more than 0.2 higher: DeepSeek's text is returned
C1_Witness ==
    /\ pc = "done" /\ arb.scored
    /\ DeepseekOverall - DeeplOverall > Pct(20)
    /\ arb.text_features.formality = "formal"
    /\ ~arb.text_features.mixed_language
    /\ result.best_translation = TextOut(deepseek_out.val)
    /\ result.translation_method = "deepseek_selected"

\* C2: exactly one provider returns a non-null text, the other None: the
\* decision is (that text, "<engine>_only", 0.8) and nothing is scored, for
\* every non-null text.
C2_SingleEngineOnly ==
    pc = "done" =>
        /\ (deepl_out.kind = "text" /\ deepseek_out.kind = "none")
              => /\ Chose(deepl_out.val, Pct(80))
                 /\ result.translation_method = "deepl_only"
                 /\ ~arb.scored /\ ~arb.rubric_called
        /\ (deepseek_out.kind = "text" /\ deepl_out.kind = "none")
              => /\ Chose(deepseek_out.val, Pct(80))
                 /\ result.translation_method = "deepseek_only"
                 /\ ~arb.scored /\ ~arb.rubric_called

\* C3: both providers None gives ("", "failed", 0.0), and "failed" is the
\* method in that case only.
C3_FailedIffBothNone ==
    pc = "done" =>
        /\ (deepl_out.kind = "none" /\ deepseek_out.kind = "none")
              => (Chose("", 0) /\ result.translation_method = "failed")
        /\ result.translation_method = "failed"
              => (deepl_out.kind = "none" /\ deepseek_out.kind = "none")

\* C4: with both translations present and an overall-score gap of at most
\* 0.2 the first matching rule decides: mixed language -> DeepSeek 0.9,
\* cultural or idiom -> DeepSeek 0.9, technical -> DeepL 0.9, formal -> DeepL
\* 0.9, otherwise the higher overall score, a tie going to DeepL, tagged
\* "<engine>_default" with that overall score as confidence.
C4_TieBreakOrder ==
    (pc = "done" /\ arb.scored /\ Abs(DeeplOverall - DeepseekOverall) <= Pct(20))
        => LET f == arb.text_features
               cultural == f.cultural_elements \/ f.idioms
               formal == f.formality = "formal"
           IN /\ f.mixed_language => Chose(deepseek_out.val, Pct(90))
              /\ (~f.mixed_language /\ cultural) => Chose(deepseek_out.val, Pct(90))
              /\ (~f.mixed_language /\ ~cultural /\ f.technical_terms)
                    => Chose(deepl_out.val, Pct(90))
              /\ (~f.mixed_language /\ ~cultural /\ ~f.technical_terms /\ formal)
                    => Chose(deepl_out.val, Pct(90))
              /\ (~f.mixed_language /\ ~cultural /\ ~f.technical_terms /\ ~formal)
                    => IF DeeplOverall >= DeepseekOverall
                       THEN /\ Chose(deepl_out.val, DeeplOverall)
                            /\ result.translation_method = "deepl_default"
                       ELSE /\ Chose(deepseek_out.val, DeepseekOverall)
                            /\ result.translation_method = "deepseek_default"

\* a short text with no marker and no mixed language, both overall scores
\* 0.7: DeepL's text by the tie rule
C4_Witness ==
    /\ pc = "done" /\ arb.scored
    /\ Len(text) > 0
    /\ ~arb.text_features.mixed_language
    /\ ~arb.text_features.cultural_elements /\ ~arb.text_features.idioms
    /\ ~arb.text_features.technical_terms
    /\ arb.text_features.formality = "neutral"
    /\ DeeplOverall = Pct(70) /\ DeepseekOverall = Pct(70)
    /\ Chose(deepl_out.val, Pct(70))
    /\ result.translation_method = "deepl_default"

\* the method tags of the selection policy
SingleEngineMethods == {"deepl_only", "deepseek_only"}

ScoredMethods ==
    {"deepl_selected", "deepseek_selected", "deepseek_mixed_language",
     "deepseek_cultural", "deepl_technical", "deepl_formal",
     "deepl_default", "deepseek_default"}

FallbackMethods == {"deepl_short_text", "deepseek_long_text"}

\* C5: whatever the provider calls and the rubric call do (text, None,
\* exception), the call returns one of the policy's decisions: single-engine,
\* failed, scored or tie-break, or the length fallback.
C5_DegradesToPolicyDecision ==
    pc = "done" =>
        /\ result.best_translation.kind = "text"
        /\ result.translation_method \in
              SingleEngineMethods \cup {"failed"} \cup ScoredMethods \cup FallbackMethods

InUnit(x) == x >= 0 /\ x <= One

\* C6: every sub-score and overall score of both engines, and the confidence
\* of every decision, lies in [0,1].
C6_ScoresClamped ==
    pc = "done" =>
        /\ InUnit(result.confidence)
        /\ arb.scored =>
              \A e \in Engines :
                  /\ \A d \in 1..4 : InUnit(arb.quality_scores[e][Dimensions[d]])
                  /\ InUnit(arb.quality_scores[e].overall)

(***************************************************************************)
(* SceneDetector                                                           *)
(***************************************************************************)
\* self.scene_keywords, in the dict's insertion order
SceneOrder ==
    <<"daily_life", "business", "technology", "sports", "medical", "academic">>

scene_keywords ==
    [daily_life |-> <<
        <<19977, 23574, 20799>>,            \* 三尖儿
        <<20200, 23574, 20799>>,            \* 仨尖儿
        <<22352, 49, 49, 36335>>,           \* 坐11路
        <<25171, 37233, 27833>>,            \* 打酱油
        <<36208, 20146, 25114>>,            \* 走亲戚
        <<36955, 24367>>,                   \* 遛弯
        <<25171, 29260>>,                   \* 打牌
        <<20080, 33756>>,                   \* 买菜
        <<20570, 39277>>,                   \* 做饭
        <<36891, 34903>>,                   \* 逛街
        <<32842, 22825>>,                   \* 聊天
        <<21792, 21969>>,                   \* 唠嗑
        <<20018, 38376>>                    \* 串门
     >>,
     business |-> <<
        <<33853, 22320>>,                   \* 落地
        <<38381, 29615>>,                   \* 闭环
        <<36171, 33021>>,                   \* 赋能
        <<25235, 25163>>,                   \* 抓手
        <<30171, 28857>>,                   \* 痛点
        <<25171, 27861>>,                   \* 打法
        <<24067, 23616>>,                   \* 布局
        <<36187, 36947>>,                   \* 赛道
        <<30408, 21033>>,                   \* 盈利
        <<21830, 19994, 27169, 24335>>,     \* 商业模式
        <<25112, 30053>>,                   \* 战略
        <<25191, 34892>>,                   \* 执行
        <<75, 80, 73>>,                     \* KPI
        <<82, 79, 73>>                      \* ROI
     >>,
     technology |-> <<
        <<25509, 21475>>,                   \* 接口
        <<65, 80, 73>>,                     \* API
        <<21069, 31471>>,                   \* 前端
        <<21518, 31471>>,                   \* 后端
        <<25968, 25454, 24211>>,            \* 数据库
        <<37096, 32626>>,                   \* 部署
        <<19978, 32447>>,                   \* 上线
        <<20195, 30721>>,                   \* 代码
        <<31639, 27861>>,                   \* 算法
        <<26550, 26500>>,                   \* 架构
        <<31995, 32479>>,                   \* 系统
        <<26381, 21153, 22120>>,            \* 服务器
        <<23458, 25143, 31471>>,            \* 客户端
        <<32534, 31243>>                    \* 编程
     >>,
     sports |-> <<
        <<27604, 36187>>,                   \* 比赛
        <<36816, 21160, 21592>>,            \* 运动员
        <<24471, 20998>>,                   \* 得分
        <<36827, 29699>>,                   \* 进球
        <<35757, 32451>>,                   \* 训练
        <<25945, 32451>>,                   \* 教练
        <<29699, 38431>>,                   \* 球队
        <<20896, 20891>>                    \* 冠军
     >>,
     medical |-> <<
        <<24739, 32773>>,                   \* 患者
        <<35786, 26029>>,                   \* 诊断
        <<27835, 30103>>,                   \* 治疗
        <<33647, 29289>>,                   \* 药物
        <<30151, 29366>>,                   \* 症状
        <<21307, 29983>>,                   \* 医生
        <<21307, 38498>>,                   \* 医院
        <<25163, 26415>>                    \* 手术
     >>,
     academic |-> <<
        <<30740, 31350>>,                   \* 研究
        <<35770, 25991>>,                   \* 论文
        <<23454, 39564>>,                   \* 实验
        <<25968, 25454>>,                   \* 数据
        <<20998, 26512>>,                   \* 分析
        <<32467, 35770>>,                   \* 结论
        <<26041, 27861>>,                   \* 方法
        <<29702, 35770>>                    \* 理论
     >>]

\* config["weight"], 1.0 for every scene
scene_weight(scene) == 1

\* A scene confidence m/len(keywords) * 0.8 + 0.1 is kept exactly, in units of
\* 1/SceneOne; the keyword lists have 13, 14 and 8 entries.
SceneOne ==
    10 * Len(scene_keywords.daily_life) * Len(scene_keywords.business)
       * Len(scene_keywords.sports)

\* a fraction num/den of 1.0 in scene units
SceneFrac(num, den) == (num * SceneOne) \div den

\* matches: the keywords of the scene that occur in the text
scene_matches(scene, t) ==
    Cardinality({k \in 1..Len(scene_keywords[scene]) :
                    Contains(t, scene_keywords[scene][k])})

\* a final score made of the match ratio alone
final_score_ratio_only(scene, t) ==
    SceneFrac(8 * scene_matches(scene, t), 10 * Len(scene_keywords[scene]))

\* final_score = match_ratio * 0.8 + min(avg_match_weight / 10, 0.2)
final_score(scene, t) ==
    LET matches == scene_matches(scene, t)
        score == matches * scene_weight(scene)
        avg_match_weight == score \div matches
    IN SceneFrac(8 * matches, 10 * Len(scene_keywords[scene]))
       + Min(SceneFrac(avg_match_weight, 10), SceneFrac(2, 10))

\* scene_scores as the list of its items: the scenes with a match
scene_scores(t) ==
    LET all == [i \in 1..Len(SceneOrder) |-> SceneOrder[i]]
        Hit(scene) == scene_matches(scene, t) > 0
        hits == SelectSeq(all, Hit)
    IN [i \in 1..Len(hits) |->
            [scene |-> hits[i], confidence |-> final_score(hits[i], t)]]

\* the list left as it is
unsorted_by_confidence(entries) == entries

RECURSIVE sorted_by_confidence(_)
\* sorted(..., key=confidence, reverse=True): stable, equal keys keep their order
sorted_by_confidence(entries) ==
    IF entries = <<>> THEN <<>>
    ELSE LET n == Len(entries)
             last == entries[n]
             front == sorted_by_confidence(SubSeq(entries, 1, n - 1))
             \* last goes behind every entry whose confidence is at least its own
             keep == Cardinality({i \in 1..Len(front) :
                                     front[i].confidence >= last.confidence})
         IN SubSeq(front, 1, keep) \o <<last>> \o SubSeq(front, keep + 1, Len(front))

\* the confidence floor 0.15 of detect_scenes
SceneThreshold == SceneFrac(15, 100)

detect_scenes(t) ==
    LET AtLeastThreshold(s) == s.confidence >= SceneThreshold
    IN SelectSeq(sorted_by_confidence(scene_scores(t)), AtLeastThreshold)

SceneMaxTextLen == 4

\* characters of 数据 and 分析 (academic), 数据库 (technology), 打牌 (daily_life)
SceneAlphabet == {25968, 25454, 24211, 20998, 26512, 25171, 29260}

SceneTexts == SeqsUpTo(SceneAlphabet, SceneMaxTextLen)

\* one call detect_scenes(text)
detect_scenes_call ==
    /\ scene_call = [pc |-> "idle", text |-> <<>>, result |-> <<>>]
    /\ \E t \in SceneTexts :
        scene_call' = [pc |-> "returned", text |-> t, result |-> detect_scenes(t)]
    /\ UNCHANGED <<arbVars, files, retrVars, learnVars, moreVars>>

NextScene == detect_scenes_call

SpecScene == Init /\ [][NextScene]_vars

\* C10: every entry detect_scenes returns has confidence at least 0.15, the
\* entries are in non-increasing order of confidence, and no scene is
\* listed twice.
C10_ScenesRankedAboveFloor ==
    scene_call.pc = "returned" =>
        LET r == scene_call.result
        IN /\ \A i \in 1..Len(r) : r[i].confidence >= SceneThreshold
           /\ \A i, j \in 1..Len(r) : i < j => r[i].confidence >= r[j].confidence
           /\ \A i, j \in 1..Len(r) : i # j => r[i].scene # r[j].scene

\* a text hitting technology and academic: academic, later in the dict, is
\* ranked first
C10_Witness ==
    /\ scene_call.pc = "returned"
    /\ Len(scene_call.result) = 2
    /\ scene_call.result[1].scene = "academic"
    /\ scene_call.result[2].scene = "technology"
    /\ scene_call.result[1].confidence > scene_call.result[2].confidence

(***************************************************************************)
(* KnowledgeRetriever                                                      *)
(***************************************************************************)
Max(S) == CHOOSE x \in S : \A y \in S : y <= x

MinOf(S) == CHOOSE x \in S : \A y \in S : x <= y

RECURSIVE Gcd(_, _)
Gcd(a, b) == IF b = 0 THEN a ELSE Gcd(b, a % b)

RECURSIVE LcmUpTo(_)
\* the least common multiple of 1..n
LcmUpTo(n) ==
    IF n <= 1 THEN 1
    ELSE LET l == LcmUpTo(n - 1) IN (l * n) \div Gcd(l, n)

\* \w of a str pattern: ASCII letters and digits, the underscore, and the
\* CJK ideographs (letters to Python's re)
IsWordChar(c) ==
    \/ IsAsciiLetter(c)
    \/ c >= 48 /\ c <= 57
    \/ c = 95
    \/ c >= 13312 /\ c <= 19903
    \/ c >= 19968 /\ c <= 40959

\* \b at offset p of t: between t[p] and t[p + 1], the ends counting as
\* non-word characters
WordBoundary(t, p) ==
    (p >= 1 /\ IsWordChar(t[p])) # (p < Len(t) /\ IsWordChar(t[p + 1]))

\* re.search(r'\b' + re.escape(s) + r'\b', t)
whole_word_search(t, s) ==
    \E i \in 0..(Len(t) - Len(s)) :
        /\ \A j \in 1..Len(s) : t[i + j] = s[j]
        /\ WordBoundary(t, i)
        /\ WordBoundary(t, i + Len(s))

\* the length of the run on which a from i and b from j agree, inside
\* a[..ahi] and b[..bhi]
common_run(a, b, i, j, ahi, bhi) ==
    Max({k \in 0..Min(ahi - i + 1, bhi - j + 1) :
            \A d \in 0..(k - 1) : a[i + d] = b[j + d]})

\* SequenceMatcher.find_longest_match without junk: the longest block, the
\* earliest in a among the longest, the earliest in b among those
find_longest_match(a, b, alo, ahi, blo, bhi) ==
    LET blocks == {<<i, j, common_run(a, b, i, j, ahi, bhi)>> :
                      i \in alo..ahi, j \in blo..bhi}
        size == Max({0} \cup {m[3] : m \in blocks})
        longest == {m \in blocks : m[3] = size}
        i0 == MinOf({m[1] : m \in longest})
        j0 == MinOf({m[2] : m \in {x \in longest : x[1] = i0}})
    IN IF size = 0 THEN <<alo, blo, 0>> ELSE <<i0, j0, size>>

RECURSIVE matching_size(_, _, _, _, _, _)
\* the sizes of SequenceMatcher.get_matching_blocks, summed
matching_size(a, b, alo, ahi, blo, bhi) ==
    IF alo > ahi \/ blo > bhi THEN 0
    ELSE LET m == find_longest_match(a, b, alo, ahi, blo, bhi)
         IN IF m[3] = 0 THEN 0
            ELSE m[3]
                 + matching_size(a, b, alo, m[1] - 1, blo, m[2] - 1)
                 + matching_size(a, b, m[1] + m[3], ahi, m[2] + m[3], bhi)

\* the expressions a knowledge base of the retriever may hold
RetrExpressions ==
    {Expression(<<25171, 29260>>, << <<29260>> >>),     \* 打牌, variant 牌
     Expression(<<>>, << <<25171, 29260>> >>)}          \* no source, variant 打牌

RetrMaxTextLen == 3

\* A relevance score is kept exactly, in units of 1/RelOne: 0.6, 0.05, ... are
\* hundredths and similarity * 0.2 is 2 * matches / (5 * (len(a) + len(b))).
RelOne ==
    100 * LcmUpTo(Max({Len(e.source) : e \in RetrExpressions}) + RetrMaxTextLen)

\* a fraction num/den of 1.0 in relevance units
RelFrac(num, den) == (num * RelOne) \div den

\* SequenceMatcher(None, source, text[:len(source)*2]).ratio() * 0.2
similarity_score(source, t) ==
    LET b == SubSeq(t, 1, Min(Len(t), 2 * Len(source)))
        matches == matching_size(source, b, 1, Len(source), 1, Len(b))
    IN RelFrac(2 * matches, 5 * (Len(source) + Len(b)))

\* the score of _calculate_relevance before its last line
relevance_sum(t, expression, keywords) ==
    LET source == expression.source
        variants == expression.variants
        source_score ==
            IF Contains(t, source)
            THEN IF whole_word_search(t, source)
                 THEN RelFrac(60, 100) ELSE RelFrac(40, 100)
            ELSE 0
        whole == {k \in 1..Len(variants) :
                     Contains(t, variants[k]) /\ whole_word_search(t, variants[k])}
        partial == {k \in 1..Len(variants) :
                       Contains(t, variants[k]) /\ ~whole_word_search(t, variants[k])}
        context_keywords == {k \in 1..Len(keywords) : Contains(t, keywords[k])}
    IN source_score
       + Cardinality(whole) * RelFrac(50, 100)
       + Cardinality(partial) * RelFrac(30, 100)
       + (IF source # <<>> THEN similarity_score(source, t) ELSE 0)
       + (IF context_keywords # {}
          THEN Min(Cardinality(context_keywords) * RelFrac(5, 100), RelFrac(20, 100))
          ELSE 0)

\* _calculate_relevance returning its score as it is
calculate_relevance_unclamped(t, expression, keywords) ==
    relevance_sum(t, expression, keywords)

\* _calculate_relevance: return min(score, 1.0)
calculate_relevance(t, expression, keywords) ==
    Min(relevance_sum(t, expression, keywords), RelOne)

\* self.loader.get_knowledge_base(scene); MissingFile stands for None
get_knowledge_base(kbs, scene) ==
    IF scene \in SceneNames THEN kbs[scene] ELSE MissingFile

\* the scenes retrieve works on: the list given, or the detected scenes whose
\* confidence is at least min_confidence
resolved_scenes(t, scenes_given, scenes, min_confidence) ==
    IF scenes_given THEN scenes
    ELSE LET detected == detect_scenes(t)
             Confident(s) == s.confidence * RelOne >= min_confidence * SceneOne
             kept == SelectSeq(detected, Confident)
         IN [i \in 1..Len(kept) |-> kept[i].scene]

\* the entries retrieve appends for one scene
scene_expressions(t, kbs, scene, min_confidence) ==
    LET knowledge_base == get_knowledge_base(kbs, scene)
        expressions == knowledge_base.expressions
        scored == [i \in 1..Len(expressions) |->
                      [source |-> expressions[i].source,
                       variants |-> expressions[i].variants,
                       scene |-> scene,
                       relevance_score |->
                           calculate_relevance(t, expressions[i],
                                               knowledge_base.keywords)]]
        Relevant(e) == e.relevance_score >= min_confidence
    IN IF knowledge_base.kind # "doc" THEN <<>> ELSE SelectSeq(scored, Relevant)

RECURSIVE all_expressions(_, _, _, _)
\* all_expressions after the loop over scenes
all_expressions(t, kbs, scenes, min_confidence) ==
    IF scenes = <<>> THEN <<>>
    ELSE scene_expressions(t, kbs, Head(scenes), min_confidence)
         \o all_expressions(t, kbs, Tail(scenes), min_confidence)

\* a sort by relevance that puts the later of two equal entries first
sorted_ties_reversed(entries) ==
    LET n == Len(entries)
        Before(j, i) ==
            \/ entries[j].relevance_score > entries[i].relevance_score
            \/ entries[j].relevance_score = entries[i].relevance_score /\ j > i
    IN [k \in 1..n |->
           entries[CHOOSE i \in 1..n : Cardinality({j \in 1..n : Before(j, i)}) = k - 1]]

RECURSIVE sorted_by_relevance(_)
\* all_expressions.sort(key=relevance_score, reverse=True): stable
sorted_by_relevance(entries) ==
    IF entries = <<>> THEN <<>>
    ELSE LET n == Len(entries)
             last == entries[n]
             front == sorted_by_relevance(SubSeq(entries, 1, n - 1))
             keep == Cardinality({i \in 1..Len(front) :
                                     front[i].relevance_score >= last.relevance_score})
         IN SubSeq(front, 1, keep) \o <<last>> \o SubSeq(front, keep + 1, Len(front))

\* Python's  entries[:k]
SliceTo(entries, k) ==
    IF k >= 0 THEN SubSeq(entries, 1, Min(k, Len(entries)))
    ELSE SubSeq(entries, 1, Max({0, Len(entries) + k}))

\* the sorted list retrieve truncates
ranked_expressions(t, kbs, scenes_given, scenes, min_confidence) ==
    sorted_by_relevance(
        all_expressions(t, kbs,
                        resolved_scenes(t, scenes_given, scenes, min_confidence),
                        min_confidence))

retrieve_result(t, kbs, scenes_given, scenes, top_k, min_confidence) ==
    SliceTo(ranked_expressions(t, kbs, scenes_given, scenes, min_confidence), top_k)

RetrMaxExpressions == 2

RetrMaxTopK == 2

\* 打, 牌 and the space
RetrAlphabet == {25171, 29260, 32}

RetrTexts == SeqsUpTo(RetrAlphabet, RetrMaxTextLen)

RetrDocs ==
    {Doc(es, kws) :
        es \in SeqsUpTo(RetrExpressions, RetrMaxExpressions),
        kws \in {<<>>, << <<25171, 29260>>, <<29260>> >>}}

\* the directory the retriever is constructed on
RetrFileSets ==
    {[NoFiles EXCEPT !.daily_life = d] : d \in RetrDocs \cup {MissingFile, CorruptFile}}

\* the scenes argument where it is given
RetrSceneLists ==
    {<<>>, <<"daily_life">>, <<"daily_life", "daily_life">>,
     <<"academic", "daily_life">>, <<"slang">>}

MinConfidences == {0, RelFrac(15, 100), RelFrac(50, 100), RelOne}

\* a retriever constructed on a directory: its loader has read the files
InitRetr ==
    /\ pc = "start"
    /\ text = <<>>
    /\ deepl_out = NotCalled
    /\ deepseek_out = NotCalled
    /\ rubric_out = RubricNotCalled
    /\ result = InitialResult(<<>>)
    /\ arb = NoAnalysis
    /\ scene_call = [pc |-> "idle", text |-> <<>>, result |-> <<>>]
    /\ files \in RetrFileSets
    /\ retriever_kb = load_all_knowledge_bases(files)
    /\ retr_call = NoRetrieve
    /\ learner_kb = NoFiles
    /\ pending_updates = <<>>
    /\ auto_save = FALSE
    /\ calls_made = 0
    /\ learned = NoLearned
    /\ last_flush = NoFlush
    /\ guide_call = NoGuidelines
    /\ prompt_call = NoPrompt
    /\ http_call = NoHttpCall
    /\ loader_call = NoLoad
    /\ flush_procs = NoFlushProcs
    /\ mixed_call = NoMixedCall
    /\ chunk_call = NoChunkCall

\* one call retrieve(text, scenes, top_k, min_confidence)
retrieve ==
    /\ retr_call.pc = "idle"
    /\ \E t \in RetrTexts, top_k \in 0..RetrMaxTopK, min_confidence \in MinConfidences,
          given \in BOOLEAN :
        \E scenes \in (IF given THEN RetrSceneLists ELSE {<<>>}) :
            retr_call' =
                [pc |-> "returned", text |-> t, scenes |-> scenes,
                 scenes_given |-> given, top_k |-> top_k,
                 min_confidence |-> min_confidence,
                 results |-> retrieve_result(t, retriever_kb, given, scenes,
                                             top_k, min_confidence)]
    /\ UNCHANGED <<arbVars, sceneVars, files, retriever_kb, learnVars, moreVars>>

NextRetr == retrieve

SpecRetr == InitRetr /\ [][NextRetr]_vars

\* C9: retrieve returns at most top_k entries, each with a relevance score
\* of at least min_confidence, and every relevance score lies in [0,1].
C9_RetrieveBounded ==
    retr_call.pc = "returned" =>
        /\ Len(retr_call.results) <= retr_call.top_k
        /\ \A i \in 1..Len(retr_call.results) :
            /\ retr_call.results[i].relevance_score >= retr_call.min_confidence
            /\ retr_call.results[i].relevance_score >= 0
            /\ retr_call.results[i].relevance_score <= RelOne

\* more entries pass min_confidence than top_k allows, and the first entry
\* returned scored above 1.0 before the last line of _calculate_relevance
C9_Witness ==
    /\ retr_call.pc = "returned"
    /\ retr_call.top_k >= 1
    /\ retr_call.min_confidence > 0
    /\ Len(retr_call.results) = retr_call.top_k
    /\ Len(ranked_expressions(retr_call.text, retriever_kb, retr_call.scenes_given,
                              retr_call.scenes, retr_call.min_confidence))
           > retr_call.top_k
    /\ relevance_sum(retr_call.text,
                     Expression(retr_call.results[1].source,
                                retr_call.results[1].variants),
                     get_knowledge_base(retriever_kb,
                                        retr_call.results[1].scene).keywords) > RelOne

(***************************************************************************)
(* KnowledgeBaseLearner                                                    *)
(***************************************************************************)
\* [\u4e00-\u9fff]
IsCjk(c) == c >= 19968 /\ c <= 40959

RECURSIVE chinese_phrases(_, _)
\* re.findall(r'[\u4e00-\u9fff]{2,6}', text) from position i on: greedy,
\* left to right, without overlap
chinese_phrases(t, i) ==
    IF i > Len(t) THEN <<>>
    ELSE LET run == Max({k \in 0..(Len(t) - i + 1) :
                            \A d \in 0..(k - 1) : IsCjk(t[i + d])})
             taken == Min(run, 6)
         IN IF run >= 2
            THEN <<SubSeq(t, i, i + taken - 1)>> \o chinese_phrases(t, i + taken)
            ELSE chinese_phrases(t, i + 1)

\* 儿 子 打 坐 走
SpokenChars == {20799, 23376, 25171, 22352, 36208}

\* the confidence _extract_potential_expressions gives a phrase
phrase_confidence(phrase) ==
    Min(Pct(30)
        + (IF \E i \in 1..Len(phrase) : phrase[i] \in SpokenChars THEN Pct(30) ELSE 0)
        + (IF Len(phrase) <= 4 THEN Pct(20) ELSE 0),
        One)

\* candidates.sort(key=confidence, reverse=True), the sort of detect_scenes
candidates_sorted(candidates) == sorted_by_confidence(candidates)

\* _extract_potential_expressions: the phrases that are no known source,
\* by confidence
extract_potential_expressions(original_text, existing_expressions) ==
    LET phrases == chinese_phrases(original_text, 1)
        Unknown(phrase) ==
            ~\E i \in 1..Len(existing_expressions) : existing_expressions[i] = phrase
        fresh == SelectSeq(phrases, Unknown)
    IN candidates_sorted([i \in 1..Len(fresh) |->
                             [text |-> fresh[i],
                              confidence |-> phrase_confidence(fresh[i])]])

\* the texts learn_from_translation is called with
LearnTexts ==
    {<<25171, 29260>>,                          \* 打牌: daily_life
     <<25968, 25454>>,                          \* 数据: academic
     <<25171, 29260, 32, 25968, 25454>>,        \* 打牌 数据: academic, two phrases
     <<25968, 25454, 24211>>,                   \* 数据库: academic, then technology
     <<29260, 25454>>}                          \* 牌据: no scene

\* self.scene_detector.detect_scenes(original_text), tabulated over the texts
detected_scenes == [t \in LearnTexts |-> detect_scenes(t)]

\* what detect_new_expression returns when it returns None
NoExpression == [found |-> FALSE, source |-> <<>>, scene |-> "", confidence |-> 0]

detect_new_expression(original_text, kbs) ==
    LET scenes == detected_scenes[original_text]
        primary_scene == scenes[1].scene
        knowledge_base == get_knowledge_base(kbs, primary_scene)
        existing_expressions ==
            [i \in 1..Len(knowledge_base.expressions) |->
                knowledge_base.expressions[i].source]
        potential_expressions ==
            extract_potential_expressions(original_text, existing_expressions)
    IN IF scenes = <<>> THEN NoExpression
       ELSE IF knowledge_base.kind # "doc" THEN NoExpression
       ELSE IF potential_expressions = <<>> THEN NoExpression
       ELSE [found |-> TRUE, source |-> potential_expressions[1].text,
             scene |-> primary_scene,
             confidence |-> potential_expressions[1].confidence]

\* self.pending_updates[scene].append(expression), the key created if new
stage(pending, scene, expression) ==
    IF \E i \in 1..Len(pending) : pending[i].scene = scene
    THEN [i \in 1..Len(pending) |->
            IF pending[i].scene = scene
            THEN [pending[i] EXCEPT !.expressions = Append(@, expression)]
            ELSE pending[i]]
    ELSE Append(pending, [scene |-> scene, expressions |-> <<expression>>])

RECURSIVE merge_expressions_no_dedupe(_, _)
\* the loop of save_updates without its test on existing_sources
merge_expressions_no_dedupe(knowledge_base, expressions) ==
    IF expressions = <<>> THEN knowledge_base
    ELSE LET new_expr == Head(expressions)
             source == new_expr.source
             known_keyword ==
                 \E i \in 1..Len(knowledge_base.keywords) :
                     knowledge_base.keywords[i] = source
         IN merge_expressions_no_dedupe(
                [knowledge_base EXCEPT
                    !.expressions = Append(@, Expression(source, new_expr.variants)),
                    !.keywords = IF known_keyword THEN @ ELSE Append(@, source)],
                Tail(expressions))

RECURSIVE merge_expressions(_, _)
\* save_updates, one scene: each staged expression whose source the document
\* does not hold yet is appended, and its source added to the keywords
merge_expressions(knowledge_base, expressions) ==
    IF expressions = <<>> THEN knowledge_base
    ELSE LET new_expr == Head(expressions)
             source == new_expr.source
             existing_sources ==
                 {knowledge_base.expressions[i].source :
                     i \in 1..Len(knowledge_base.expressions)}
             known_keyword ==
                 \E i \in 1..Len(knowledge_base.keywords) :
                     knowledge_base.keywords[i] = source
         IN IF source \in existing_sources
            THEN merge_expressions(knowledge_base, Tail(expressions))
            ELSE merge_expressions(
                     [knowledge_base EXCEPT
                         !.expressions = Append(@, Expression(source, new_expr.variants)),
                         !.keywords = IF known_keyword THEN @ ELSE Append(@, source)],
                     Tail(expressions))

\* no file operation fails in this save_updates
NoFault == [scene |-> "", op |-> "none"]

\* the file operation of one scene that raises: the read (open or json.load),
\* the open for writing, or json.dump after the file was truncated
Fault(scene, op) == [scene |-> scene, op |-> op]

RECURSIVE flush_scenes(_, _, _, _)
\* the loop of save_updates over pending_updates.items(), from its first
\* remaining item to its end or to the first exception
flush_scenes(pending, fs, fault, written) ==
    IF pending = <<>>
    THEN [files |-> fs, ok |-> TRUE, failed |-> "", written |-> written]
    ELSE LET scene == Head(pending).scene
             scene_file == fs[scene]
             knowledge_base ==
                 IF scene_file.kind = "missing" THEN Doc(<<>>, <<>>) ELSE scene_file
             read_raises ==
                 /\ scene_file.kind # "missing"
                 /\ (scene_file.kind = "corrupt" \/ fault = Fault(scene, "read"))
         IN IF read_raises \/ fault = Fault(scene, "open")
            THEN [files |-> fs, ok |-> FALSE, failed |-> scene, written |-> written]
            ELSE IF fault = Fault(scene, "dump")
            THEN [files |-> [fs EXCEPT ![scene] = CorruptFile],
                  ok |-> FALSE, failed |-> scene, written |-> written]
            ELSE flush_scenes(
                     Tail(pending),
                     [fs EXCEPT ![scene] =
                         merge_expressions(knowledge_base, Head(pending).expressions)],
                     fault, written \cup {scene})

\* a save_updates that does not clear pending_updates
save_updates_keeps_pending(pending, fs, kbs, fault) ==
    LET flushed == flush_scenes(pending, fs, fault, {})
    IN [files |-> flushed.files, pending |-> pending,
        kbs |-> IF flushed.ok /\ pending # <<>>
                THEN load_all_knowledge_bases(flushed.files) ELSE kbs,
        report |-> [called |-> TRUE, ok |-> flushed.ok,
                    staged |-> [i \in 1..Len(pending) |-> pending[i].scene],
                    failed |-> flushed.failed, written |-> flushed.written,
                    damaged |-> {}]]

\* save_updates: what it leaves in the files, the pending updates and the
\* loader, and what it did
save_updates_result(pending, fs, kbs, fault) ==
    LET flushed == flush_scenes(pending, fs, fault, {})
        report ==
            [called |-> TRUE, ok |-> flushed.ok,
             staged |-> [i \in 1..Len(pending) |-> pending[i].scene],
             failed |-> flushed.failed, written |-> flushed.written,
             damaged |-> {scene \in SceneNames :
                             /\ scene # flushed.failed
                             /\ flushed.files[scene].kind = "corrupt"
                             /\ fs[scene].kind # "corrupt"}]
    IN IF pending = <<>>
       THEN [files |-> fs, pending |-> pending, kbs |-> kbs, report |-> report]
       ELSE IF flushed.ok
       THEN [files |-> flushed.files, pending |-> <<>>,
             kbs |-> load_all_knowledge_bases(flushed.files), report |-> report]
       ELSE [files |-> flushed.files, pending |-> pending, kbs |-> kbs,
             report |-> report]

MaxLearnerCalls == 3

\* the scenes and expressions add_expression_manually is called with
ManualScenes == {"daily_life", "academic"}

ManualExpressions ==
    {Expression(<<25171, 29260>>, << <<29260>> >>)}     \* 打牌, variant 牌

\* what may go wrong in one save_updates over the pending updates
FlushFaults(pending) ==
    {NoFault} \cup {Fault(pending[i].scene, op) : i \in 1..Len(pending),
                                                  op \in {"read", "open", "dump"}}

\* the directory the learner is constructed on
LearnFileSets ==
    {[NoFiles EXCEPT !.daily_life = d, !.academic = Doc(<<>>, <<>>)] :
        d \in {MissingFile, CorruptFile, Doc(<<>>, <<>>),
               \* 数据, with the variant 打牌
               Doc(<<Expression(<<25968, 25454>>, << <<25171, 29260>> >>)>>, <<>>)}}

\* a learner constructed on a directory, with auto_save on or off
InitLearn ==
    /\ pc = "start"
    /\ text = <<>>
    /\ deepl_out = NotCalled
    /\ deepseek_out = NotCalled
    /\ rubric_out = RubricNotCalled
    /\ result = InitialResult(<<>>)
    /\ arb = NoAnalysis
    /\ scene_call = [pc |-> "idle", text |-> <<>>, result |-> <<>>]
    /\ files \in LearnFileSets
    /\ retriever_kb = NoFiles
    /\ retr_call = NoRetrieve
    /\ learner_kb = load_all_knowledge_bases(files)
    /\ pending_updates = <<>>
    /\ auto_save \in BOOLEAN
    /\ calls_made = 0
    /\ learned = NoLearned
    /\ last_flush = NoFlush
    /\ guide_call = NoGuidelines
    /\ prompt_call = NoPrompt
    /\ http_call = NoHttpCall
    /\ loader_call = NoLoad
    /\ flush_procs = NoFlushProcs
    /\ mixed_call = NoMixedCall
    /\ chunk_call = NoChunkCall

\* learn_from_translation(original_text, translated_text), with the
\* save_updates it runs when auto_save is on
learn_from_translation ==
    /\ calls_made < MaxLearnerCalls
    /\ \E original_text \in LearnTexts :
        LET new_expression == detect_new_expression(original_text, learner_kb)
            staged == stage(pending_updates, new_expression.scene,
                            Expression(new_expression.source, <<>>))
        IN \E fault \in (IF new_expression.found /\ auto_save
                         THEN FlushFaults(staged) ELSE {NoFault}) :
        LET saved == save_updates_result(staged, files, learner_kb, fault)
            again == /\ learned.text = original_text
                     /\ learned.source = new_expression.source
                     /\ learned.scene = new_expression.scene
        IN IF ~new_expression.found
           THEN UNCHANGED <<files, learner_kb, pending_updates, learned, last_flush>>
           ELSE /\ learned' = [text |-> original_text,
                               source |-> new_expression.source,
                               scene |-> new_expression.scene,
                               times |-> IF again THEN learned.times + 1 ELSE 1]
                /\ IF auto_save
                   THEN /\ files' = saved.files
                        /\ learner_kb' = saved.kbs
                        /\ pending_updates' = saved.pending
                        /\ last_flush' = saved.report
                   ELSE /\ pending_updates' = staged
                        /\ last_flush' = NoFlush
                        /\ UNCHANGED <<files, learner_kb>>
    /\ calls_made' = calls_made + 1
    /\ UNCHANGED <<auto_save, arbVars, sceneVars, retrVars, moreVars>>

\* add_expression_manually(scene, expression), with the save_updates it runs
\* when auto_save is on
add_expression_manually ==
    /\ calls_made < MaxLearnerCalls
    /\ \E scene \in ManualScenes, expression \in ManualExpressions :
        LET staged == stage(pending_updates, scene, expression)
        IN \E fault \in (IF auto_save THEN FlushFaults(staged) ELSE {NoFault}) :
        LET saved == save_updates_result(staged, files, learner_kb, fault)
        IN IF auto_save
           THEN /\ files' = saved.files
                /\ learner_kb' = saved.kbs
                /\ pending_updates' = saved.pending
                /\ last_flush' = saved.report
           ELSE /\ pending_updates' = staged
                /\ last_flush' = NoFlush
                /\ UNCHANGED <<files, learner_kb>>
    /\ calls_made' = calls_made + 1
    /\ UNCHANGED <<auto_save, learned, arbVars, sceneVars, retrVars, moreVars>>

\* save_updates() called by the user
save_updates ==
    /\ \E fault \in FlushFaults(pending_updates) :
        LET saved == save_updates_result(pending_updates, files, learner_kb, fault)
        IN /\ files' = saved.files
           /\ learner_kb' = saved.kbs
           /\ pending_updates' = saved.pending
           /\ last_flush' = saved.report
    /\ UNCHANGED <<auto_save, calls_made, learned, arbVars, sceneVars, retrVars, moreVars>>

NextLearn == learn_from_translation \/ add_expression_manually \/ save_updates

SpecLearn == InitLearn /\ [][NextLearn]_vars

\* the entries of a scene file whose source is the given one
entries_with_source(scene_file, source) ==
    {i \in 1..Len(scene_file.expressions) : scene_file.expressions[i].source = source}

\* the last learn_from_translation calls, two or more, had the same input and
\* detected the same phrase, and the last operation ended in a save_updates
\* that returned True
LearnedTwiceThenFlushed ==
    /\ learned.times >= 2
    /\ last_flush.called
    /\ last_flush.ok

\* C7: after learn_from_translation is called twice with the same input and
\* detects the same phrase, and save_updates then succeeds, the scene's file
\* holds exactly one expression whose source is that phrase, with auto_save on
\* or off.
C7_LearnTwiceOneEntry ==
    LearnedTwiceThenFlushed =>
        /\ files[learned.scene].kind = "doc"
        /\ Cardinality(entries_with_source(files[learned.scene], learned.source)) = 1

\* auto_save off: the phrase was staged twice and one save_updates wrote it
C7_Witness ==
    /\ LearnedTwiceThenFlushed
    /\ ~auto_save
    /\ learned.scene \in last_flush.written
    /\ Cardinality(entries_with_source(files[learned.scene], learned.source)) = 1

\* auto_save on: the save_updates of the first call failed, the one of the
\* second call wrote the phrase
C7_WitnessAutoSave ==
    /\ LearnedTwiceThenFlushed
    /\ auto_save
    /\ learned.scene \in last_flush.written
    /\ Cardinality(entries_with_source(files[learned.scene], learned.source)) = 1

\* C8: when a save_updates over several staged scenes fails on one scene's
\* file, every other staged scene's file is still written in that call and no
\* other scene's file is left corrupt.
C8_SceneWritesIndependent ==
    (last_flush.called /\ last_flush.failed # "") =>
        /\ \A i \in 1..Len(last_flush.staged) :
            last_flush.staged[i] # last_flush.failed
                => last_flush.staged[i] \in last_flush.written
        /\ last_flush.damaged = {}

(***************************************************************************)
(* KnowledgeRetriever.get_translation_guidelines                           *)
(***************************************************************************)
\* a document with the given "translation_guidelines"
GuideDoc(guidelines) ==
    [Doc(<<>>, <<>>) EXCEPT !.translation_guidelines = guidelines]

RECURSIVE guidelines_of(_, _)
\* all_guidelines after the loop: the guideline lists of the loaded scenes,
\* one after the other
guidelines_of(kbs, scenes) ==
    IF scenes = <<>> THEN <<>>
    ELSE LET knowledge_base == get_knowledge_base(kbs, Head(scenes))
         IN (IF knowledge_base.kind = "doc"
             THEN knowledge_base.translation_guidelines ELSE <<>>)
            \o guidelines_of(kbs, Tail(scenes))

\* list(all_guidelines)
list_with_duplicates(all) == all

\* list(dict.fromkeys(all_guidelines)): each key once, in insertion order
list_dict_fromkeys(all) ==
    LET first == {i \in 1..Len(all) : \A j \in 1..(i - 1) : all[j] # all[i]}
    IN [n \in 1..Cardinality(first) |->
            all[CHOOSE i \in first : Cardinality({j \in first : j <= i}) = n]]

GuideMaxLen == 2

GuideMaxScenes == 2

\* a retriever constructed on a directory whose documents carry guidelines
InitGuide ==
    /\ pc = "start"
    /\ text = <<>>
    /\ deepl_out = NotCalled
    /\ deepseek_out = NotCalled
    /\ rubric_out = RubricNotCalled
    /\ result = InitialResult(<<>>)
    /\ arb = NoAnalysis
    /\ scene_call = [pc |-> "idle", text |-> <<>>, result |-> <<>>]
    /\ files \in
        {[NoFiles EXCEPT !.daily_life = d, !.academic = GuideDoc(a)] :
            d \in {MissingFile, CorruptFile}
                    \cup {GuideDoc(g) : g \in SeqsUpTo({"g1", "g2"}, GuideMaxLen)},
            a \in SeqsUpTo({"g1", "g2"}, GuideMaxLen)}
    /\ retriever_kb = load_all_knowledge_bases(files)
    /\ retr_call = NoRetrieve
    /\ learner_kb = NoFiles
    /\ pending_updates = <<>>
    /\ auto_save = FALSE
    /\ calls_made = 0
    /\ learned = NoLearned
    /\ last_flush = NoFlush
    /\ guide_call = NoGuidelines
    /\ prompt_call = NoPrompt
    /\ http_call = NoHttpCall
    /\ loader_call = NoLoad
    /\ flush_procs = NoFlushProcs
    /\ mixed_call = NoMixedCall
    /\ chunk_call = NoChunkCall

\* one call get_translation_guidelines(scenes); two calls are made
get_translation_guidelines ==
    /\ guide_call.calls < 2
    /\ \E scenes \in SeqsUpTo({"daily_life", "academic", "slang"}, GuideMaxScenes) :
        guide_call' =
            [calls |-> guide_call.calls + 1,
             scenes |-> scenes,
             result |-> list_dict_fromkeys(guidelines_of(retriever_kb, scenes)),
             previous_scenes |-> guide_call.scenes,
             previous_result |-> guide_call.result]
    /\ UNCHANGED <<arbVars, sceneVars, files, retrVars, learnVars, prompt_call, http_call, loader_call, flush_procs, mixed_call, chunk_call>>

SpecGuide == InitGuide /\ [][get_translation_guidelines]_vars

\* the guidelines of the i-th scene of the call, none if it has no loaded
\* knowledge base
GuidelinesAt(i) ==
    IF guide_call.scenes[i] \in SceneNames
       /\ files[guide_call.scenes[i]].kind = "doc"
    THEN files[guide_call.scenes[i]].translation_guidelines
    ELSE <<>>

\* where guideline g occurs first: the scene of the list, then the place in
\* that scene's stored list
FirstScene(g) ==
    MinOf({i \in 1..Len(guide_call.scenes) :
              \E k \in 1..Len(GuidelinesAt(i)) : GuidelinesAt(i)[k] = g})

FirstPlace(g) ==
    MinOf({k \in 1..Len(GuidelinesAt(FirstScene(g))) :
              GuidelinesAt(FirstScene(g))[k] = g})

\* C11: get_translation_guidelines returns the guidelines of the given scenes
\* that have a loaded knowledge base, each once, in the order of their first
\* occurrence; a second call with the same scenes returns the same list, and
\* the knowledge store stays what was loaded.
C11_GuidelinesFirstSeenUnion ==
    guide_call.calls >= 1 =>
        LET r == guide_call.result
        IN /\ {r[n] : n \in 1..Len(r)} =
                  UNION {{GuidelinesAt(i)[k] : k \in 1..Len(GuidelinesAt(i))} :
                            i \in 1..Len(guide_call.scenes)}
           /\ \A m, n \in 1..Len(r) : m # n => r[m] # r[n]
           /\ \A m, n \in 1..Len(r) :
                m < n =>
                    \/ FirstScene(r[m]) < FirstScene(r[n])
                    \/ /\ FirstScene(r[m]) = FirstScene(r[n])
                       /\ FirstPlace(r[m]) < FirstPlace(r[n])
           /\ (guide_call.calls = 2 /\ guide_call.previous_scenes = guide_call.scenes)
                => guide_call.previous_result = r
           /\ retriever_kb = load_all_knowledge_bases(files)

\* the second of two calls with the same scenes, where a guideline occurs in
\* both scenes and a later guideline of the first scene is kept before the
\* new one of the second
C11_Witness ==
    /\ guide_call.calls = 2
    /\ guide_call.previous_scenes = guide_call.scenes
    /\ Len(guide_call.scenes) = 2
    /\ guide_call.scenes[1] # guide_call.scenes[2]
    /\ Len(guide_call.result) = 2
    /\ Len(guidelines_of(retriever_kb, guide_call.scenes)) > 2

(***************************************************************************)
(* RAGPromptEnhancer                                                       *)
(***************************************************************************)
\* A prompt is the sequence of its sections: the instruction line, the scene
\* section, the knowledge section, the guideline section, the requirements
\* block and the source text line.
Section(kind, items) == [kind |-> kind, items |-> items]

\* detected_scenes[:3]
MaxPromptScenes == 3

\* guidelines[:5]
MaxPromptGuidelines == 5

\* generate_enhanced_prompt with use_rag, showing every guideline
prompt_sections_all_guidelines(t, top_k, kbs) ==
    LET detected == detect_scenes(t)
        retrieved_knowledge == retrieve_result(t, kbs, FALSE, <<>>, top_k, RelFrac(15, 100))
        scenes_list == [i \in 1..Len(detected) |-> detected[i].scene]
        guidelines == list_dict_fromkeys(guidelines_of(kbs, scenes_list))
    IN <<Section("instruction", <<>>)>>
       \o (IF detected # <<>>
           THEN <<Section("scenes", SliceTo(detected, MaxPromptScenes))>> ELSE <<>>)
       \o (IF retrieved_knowledge # <<>>
           THEN <<Section("knowledge", retrieved_knowledge)>> ELSE <<>>)
       \o (IF detected # <<>> /\ guidelines # <<>>
           THEN <<Section("guidelines", guidelines)>> ELSE <<>>)
       \o <<Section("requirements", <<>>), Section("source", t)>>

\* generate_enhanced_prompt with use_rag
prompt_sections(t, top_k, kbs) ==
    LET detected == detect_scenes(t)
        retrieved_knowledge == retrieve_result(t, kbs, FALSE, <<>>, top_k, RelFrac(15, 100))
        scenes_list == [i \in 1..Len(detected) |-> detected[i].scene]
        guidelines == list_dict_fromkeys(guidelines_of(kbs, scenes_list))
    IN <<Section("instruction", <<>>)>>
       \o (IF detected # <<>>
           THEN <<Section("scenes", SliceTo(detected, MaxPromptScenes))>> ELSE <<>>)
       \o (IF retrieved_knowledge # <<>>
           THEN <<Section("knowledge", retrieved_knowledge)>> ELSE <<>>)
       \o (IF detected # <<>> /\ guidelines # <<>>
           THEN <<Section("guidelines", SliceTo(guidelines, MaxPromptGuidelines))>>
           ELSE <<>>)
       \o <<Section("requirements", <<>>), Section("source", t)>>

PromptMaxTextLen == 3

PromptMaxTopK == 2

\* an enhancer constructed on a directory: the loader of its retriever has
\* read the files
InitPrompt ==
    /\ pc = "start"
    /\ text = <<>>
    /\ deepl_out = NotCalled
    /\ deepseek_out = NotCalled
    /\ rubric_out = RubricNotCalled
    /\ result = InitialResult(<<>>)
    /\ arb = NoAnalysis
    /\ scene_call = [pc |-> "idle", text |-> <<>>, result |-> <<>>]
    /\ files \in
        {[NoFiles EXCEPT !.daily_life = d, !.academic = a] :
            d \in {MissingFile,
                   Doc(<<>>, <<>>),
                   \* 打牌 with variant 牌, and six guidelines
                   [Doc(<<Expression(<<25171, 29260>>, << <<29260>> >>)>>,
                        << <<25171, 29260>> >>)
                       EXCEPT !.translation_guidelines =
                                  <<"g1", "g2", "g3", "g4", "g5", "g6">>]},
            a \in {MissingFile, GuideDoc(<<"g1", "g7">>)}}
    /\ retriever_kb = load_all_knowledge_bases(files)
    /\ retr_call = NoRetrieve
    /\ learner_kb = NoFiles
    /\ pending_updates = <<>>
    /\ auto_save = FALSE
    /\ calls_made = 0
    /\ learned = NoLearned
    /\ last_flush = NoFlush
    /\ guide_call = NoGuidelines
    /\ prompt_call = NoPrompt
    /\ http_call = NoHttpCall
    /\ loader_call = NoLoad
    /\ flush_procs = NoFlushProcs
    /\ mixed_call = NoMixedCall
    /\ chunk_call = NoChunkCall

\* one call generate_enhanced_prompt(text, source_lang, target_lang, use_rag,
\* top_k); the texts are the short ones over 打 牌 数 据 and 打牌数据库得分,
\* which hits four scenes
generate_enhanced_prompt ==
    /\ prompt_call.pc = "idle"
    /\ \E t \in SeqsUpTo({25171, 29260, 25968, 25454}, PromptMaxTextLen)
                  \cup {<<25171, 29260, 25968, 25454, 24211, 24471, 20998>>},
          use_rag \in BOOLEAN, top_k \in 0..PromptMaxTopK :
        prompt_call' =
            [NoPrompt EXCEPT
                !.pc = "returned", !.text = t, !.use_rag = use_rag, !.top_k = top_k,
                !.prompt = IF use_rag
                           THEN prompt_sections(t, top_k, retriever_kb)
                           ELSE <<Section("instruction", <<>>), Section("source", t)>>]
    /\ UNCHANGED <<arbVars, sceneVars, files, retrVars, learnVars, guide_call, http_call, loader_call, flush_procs, mixed_call, chunk_call>>

SpecPrompt == InitPrompt /\ [][generate_enhanced_prompt]_vars

\* the kinds of the sections of the returned prompt, in their order
PromptKinds == [i \in 1..Len(prompt_call.prompt) |-> prompt_call.prompt[i].kind]

\* the guidelines stored for the scenes detected in the text of the call
DetectedGuidelines ==
    UNION {{files[s].translation_guidelines[k] :
                k \in 1..Len(files[s].translation_guidelines)} :
           s \in {d.scene : d \in {detect_scenes(prompt_call.text)[i] :
                                      i \in 1..Len(detect_scenes(prompt_call.text))}}}

\* C12: without use_rag the prompt is the instruction and the source text;
\* with use_rag it is the instruction, the scene section (at most 3 scenes,
\* iff a scene is detected), the knowledge section (iff retrieval is
\* non-empty), the guideline section (at most 5 guidelines, iff there is
\* one), the requirements block and the source text, in this order.
C12_PromptDegradesByOmission ==
    prompt_call.pc = "returned" =>
        LET p == prompt_call.prompt
            t == prompt_call.text
            retrieved == retrieve_result(t, retriever_kb, FALSE, <<>>,
                                         prompt_call.top_k, RelFrac(15, 100))
        IN /\ p[Len(p)] = Section("source", t)
           /\ ~prompt_call.use_rag => PromptKinds = <<"instruction", "source">>
           /\ prompt_call.use_rag =>
                /\ PromptKinds =
                      <<"instruction">>
                      \o (IF detect_scenes(t) # <<>> THEN <<"scenes">> ELSE <<>>)
                      \o (IF retrieved # <<>> THEN <<"knowledge">> ELSE <<>>)
                      \o (IF DetectedGuidelines # {} THEN <<"guidelines">> ELSE <<>>)
                      \o <<"requirements", "source">>
                /\ \A i \in 1..Len(p) :
                    /\ p[i].kind = "scenes" => Len(p[i].items) <= MaxPromptScenes
                    /\ p[i].kind = "guidelines" =>
                          Len(p[i].items) <= MaxPromptGuidelines

\* four scenes detected and seven guidelines stored for them: three scenes
\* and five guidelines are shown, with a knowledge section
C12_Witness ==
    /\ prompt_call.pc = "returned"
    /\ prompt_call.use_rag
    /\ Len(detect_scenes(prompt_call.text)) > MaxPromptScenes
    /\ Cardinality(DetectedGuidelines) > MaxPromptGuidelines
    /\ PromptKinds = <<"instruction", "scenes", "knowledge", "guidelines",
                       "requirements", "source">>
    /\ Len(prompt_call.prompt[2].items) = MaxPromptScenes
    /\ Len(prompt_call.prompt[4].items) = MaxPromptGuidelines

(***************************************************************************)
(* Provider adapters: DeepLClient.translate_text and                       *)
(* EnhancedDeepSeekClient._call_deepseek_api                               *)
(***************************************************************************)
\* self.max_retries
max_retries == 3

\* self.retry_delay
retry_delay == 1

\* What requests.post and the reading of its response do in one attempt: an
\* exception of requests.post, or a response with a status code and a body
\* that has the expected shape or not.
HttpOutcome(raised, status, body) == [raised |-> raised, status |-> status, body |-> body]

\* Status codes of the providers' documented error responses:
\* DeepL 403 authorization failed, 456 quota exceeded; DeepSeek 401
\* authentication fails, 402 insufficient balance; 429 too many requests for
\* both; 500 stands for the other error statuses.
HttpOutcomes ==
    {HttpOutcome(e, 0, "none") : e \in {"Timeout", "ConnectionError", "Exception"}}
    \cup {HttpOutcome("none", 200, b) : b \in {"text", "malformed"}}
    \cup {HttpOutcome("none", st, "error") : st \in {401, 402, 403, 429, 456, 500}}

\* how one iteration of the loop ends
Returns(value) == [returns |-> TRUE, value |-> value, sleep |-> 0]
Continues(sleep) == [returns |-> FALSE, value |-> "none", sleep |-> sleep]

\* the retry of an error status, a timeout and a connection error: sleep and
\* continue unless this was the last attempt
retry_or_null(attempt) ==
    IF attempt < max_retries - 1
    THEN Continues(retry_delay * (attempt + 1))
    ELSE Returns("null")

\* an iteration whose handlers let the exceptions of the body through
loop_body_uncaught(client, attempt, o) ==
    IF o.raised # "none" \/ (o.status = 200 /\ o.body = "malformed")
    THEN Returns("raised")
    ELSE IF o.status = 200 THEN Returns("text") ELSE retry_or_null(attempt)

\* One iteration of the loop of translate_text (client "deepl") and of
\* _call_deepseek_api (client "deepseek") from requests.post on.  A body of
\* the wrong shape is reported by translate_text when the translations are
\* missing or empty, and raises an exception caught by except Exception in
\* every other case.
loop_body(client, attempt, o) ==
    IF o.raised \in {"Timeout", "ConnectionError"} THEN retry_or_null(attempt)
    ELSE IF o.raised = "Exception" THEN Returns("null")
    ELSE IF o.status = 200
         THEN IF o.body = "text" THEN Returns("text") ELSE Returns("null")
    ELSE IF o.status = 429 THEN Continues(retry_delay * (2 ^ attempt))
    ELSE IF client = "deepl" /\ o.status \in {403, 456} THEN Returns("null")
    ELSE IF client = "deepseek" /\ o.status \in {401, 403} THEN Returns("null")
    ELSE retry_or_null(attempt)

\* the state of a call after the iteration with the outcome o of its attempt;
\* sleeps[i] is the time slept in attempt i, 0 for none
after_attempt(call, client, o) ==
    LET r == loop_body(client, call.attempt, o)
    IN [call EXCEPT
          !.client = client,
          !.outcomes = Append(@, o),
          !.sleeps = Append(@, r.sleep),
          !.attempt = @ + 1,
          !.pc = IF r.returns \/ call.attempt + 1 >= max_retries
                 THEN "returned" ELSE "loop",
          !.value = IF r.returns THEN r.value
                    ELSE IF call.attempt + 1 >= max_retries THEN "null" ELSE "none"]

\* One iteration of the loop of DeepLClient.translate_text; the first one
\* starts the call.  With a target language that DeepL does not support the
\* call returns null before any request.
translate_text ==
    /\ http_call.pc # "returned"
    /\ http_call.client \in {"none", "deepl"}
    /\ \E supported \in IF http_call.pc = "idle" THEN BOOLEAN
                        ELSE {http_call.target_supported}, o \in HttpOutcomes :
        http_call' =
            IF supported
            THEN after_attempt(http_call, "deepl", o)
            ELSE [http_call EXCEPT !.client = "deepl", !.target_supported = FALSE,
                                   !.pc = "returned", !.value = "null"]
    /\ UNCHANGED <<arbVars, sceneVars, files, retrVars, learnVars, guide_call, prompt_call, loader_call, flush_procs, mixed_call, chunk_call>>

\* One iteration of the loop of EnhancedDeepSeekClient._call_deepseek_api;
\* the first one starts the call.
call_deepseek_api ==
    /\ http_call.pc # "returned"
    /\ http_call.client \in {"none", "deepseek"}
    /\ \E o \in HttpOutcomes : http_call' = after_attempt(http_call, "deepseek", o)
    /\ UNCHANGED <<arbVars, sceneVars, files, retrVars, learnVars, guide_call, prompt_call, loader_call, flush_procs, mixed_call, chunk_call>>

SpecHttp == Init /\ [][translate_text \/ call_deepseek_api]_vars

\* the attempt of the call that ended with a well-formed status 200 response
IsSuccess(o) == o.raised = "none" /\ o.status = 200 /\ o.body = "text"

\* C13: a provider adapter call makes at most max_retries HTTP attempts and
\* has returned after the last one; it returns the text on the first
\* successful attempt, which ends the call, and null otherwise; it never
\* raises.
C13_AdapterBoundedNeverRaises ==
    LET os == http_call.outcomes
    IN /\ Len(os) <= max_retries
       /\ Len(os) = max_retries => http_call.pc = "returned"
       /\ \A i \in 1..(Len(os) - 1) : ~IsSuccess(os[i])
       /\ http_call.value # "raised"
       /\ http_call.pc = "returned" =>
             /\ http_call.value \in {"text", "null"}
             /\ http_call.value = "text" <=> (os # <<>> /\ IsSuccess(os[Len(os)]))
       /\ http_call.pc # "returned" => http_call.value = "none"

\* a call that was rate limited three times, and so gave up
C13_Witness ==
    /\ http_call.pc = "returned"
    /\ http_call.value = "null"
    /\ Len(http_call.outcomes) = max_retries
    /\ \A i \in 1..max_retries : http_call.outcomes[i].status = 429

\* a call that succeeded on its third attempt after a timeout and an error
\* status
C13_WitnessLateSuccess ==
    /\ http_call.pc = "returned"
    /\ http_call.value = "text"
    /\ Len(http_call.outcomes) = max_retries
    /\ http_call.outcomes[1].raised = "Timeout"
    /\ http_call.outcomes[2].status = 500

\* the outcomes that are an authentication failure, an exhausted quota or a
\* malformed response of the provider of the client
IsTerminalFailure(client, o) ==
    /\ o.raised = "none"
    /\ IF o.status = 200 THEN o.body = "malformed"
       ELSE IF client = "deepl" THEN o.status \in {403, 456}
       ELSE o.status \in {401, 402}

\* C14: an authentication failure, an exhausted quota and a malformed
\* response end the call of either adapter at once: null is returned, no
\* further attempt is made and the attempt does not sleep.
C14_TerminalFailuresEndTheCall ==
    \A i \in 1..Len(http_call.outcomes) :
        IsTerminalFailure(http_call.client, http_call.outcomes[i]) =>
            /\ i = Len(http_call.outcomes)
            /\ http_call.pc = "returned"
            /\ http_call.value = "null"
            /\ http_call.sleeps[i] = 0

(***************************************************************************)
(* KnowledgeBaseLoader: initial load and reload                            *)
(***************************************************************************)
\* a loader constructed on a directory of two scene files, each absent,
\* corrupt or one of two documents
InitLoad ==
    /\ pc = "start"
    /\ text = <<>>
    /\ deepl_out = NotCalled
    /\ deepseek_out = NotCalled
    /\ rubric_out = RubricNotCalled
    /\ result = InitialResult(<<>>)
    /\ arb = NoAnalysis
    /\ scene_call = [pc |-> "idle", text |-> <<>>, result |-> <<>>]
    /\ files \in
        {[NoFiles EXCEPT !.daily_life = d, !.academic = a] :
            d \in {MissingFile, CorruptFile, GuideDoc(<<>>), GuideDoc(<<"g1">>)},
            a \in {MissingFile, CorruptFile, GuideDoc(<<>>), GuideDoc(<<"g1">>)}}
    /\ retriever_kb = load_all_knowledge_bases(files)
    /\ retr_call = NoRetrieve
    /\ learner_kb = NoFiles
    /\ pending_updates = <<>>
    /\ auto_save = FALSE
    /\ calls_made = 0
    /\ learned = NoLearned
    /\ last_flush = NoFlush
    /\ guide_call = NoGuidelines
    /\ prompt_call = NoPrompt
    /\ http_call = NoHttpCall
    /\ loader_call = [op |-> "init", seen |-> files]
    /\ flush_procs = NoFlushProcs
    /\ mixed_call = NoMixedCall
    /\ chunk_call = NoChunkCall

\* a scene file of the directory is written, damaged or deleted behind the
\* loader's back
file_changes ==
    /\ \E scene \in {"daily_life", "academic"},
          f \in {MissingFile, CorruptFile, GuideDoc(<<>>), GuideDoc(<<"g1">>)} :
        /\ files[scene] # f
        /\ files' = [files EXCEPT ![scene] = f]
    /\ UNCHANGED <<arbVars, sceneVars, retrVars, learnVars, moreVars>>

\* KnowledgeBaseLoader.reload: clear the snapshot and load the directory
reload ==
    /\ retriever_kb' = load_all_knowledge_bases(files)
    /\ loader_call' = [op |-> "reload", seen |-> files]
    /\ UNCHANGED <<arbVars, sceneVars, files, retr_call, learnVars, guide_call, prompt_call, http_call, flush_procs, mixed_call, chunk_call>>

SpecLoad == InitLoad /\ [][file_changes \/ reload]_vars

\* the scenes whose file parsed in the directory fs
ParsedScenes(fs) == {scene \in SceneNames : fs[scene].kind = "doc"}

\* C15: after the initial load and after every reload the snapshot holds
\* exactly the scenes whose files parsed when the directory was read, each
\* with its document: a corrupt file is skipped and does not keep another
\* scene from loading, and nothing of an earlier load is left.
C15_SnapshotIsParsedFiles ==
    /\ loader_call.op \in {"init", "reload"}
    /\ {scene \in SceneNames : retriever_kb[scene] # MissingFile}
          = ParsedScenes(loader_call.seen)
    /\ \A scene \in ParsedScenes(loader_call.seen) :
          retriever_kb[scene] = loader_call.seen[scene]

\* a reload that found daily_life corrupt, after a load that had read it, and
\* that loaded academic
C15_Witness ==
    /\ loader_call.op = "reload"
    /\ loader_call.seen.daily_life = CorruptFile
    /\ loader_call.seen.academic.kind = "doc"
    /\ retriever_kb.daily_life = MissingFile
    /\ retriever_kb.academic = loader_call.seen.academic

(***************************************************************************)
(* Properties of the scores of the arbitrator                              *)
(***************************************************************************)
\* the rubric response has a score line of the dimension
HasScoreLine(dim) ==
    \E i \in 1..Len(rubric_out.lines) :
        rubric_out.lines[i].kind = "score" /\ rubric_out.lines[i].dim = dim

\* C16: the scores of both engines that the selection compares, parsed or
\* taken from the default table, have overall = 0.3 accuracy + 0.25 fluency
\* + 0.25 cultural_adaptation + 0.2 completeness; a sub-score with no line
\* in a parsed response is 0.5.
C16_OverallIsWeightedSum ==
    (pc = "done" /\ arb.scored) =>
        /\ \A e \in Engines :
              arb.quality_scores[e].overall = WeightedOverall(arb.quality_scores[e])
        /\ Truthy([kind |-> rubric_out.kind, val |-> rubric_out.lines]) =>
              \A e \in Engines, d \in 1..4 :
                  ~HasScoreLine(Dimensions[d]) =>
                      arb.quality_scores[e][Dimensions[d]] = Pct(50)

\* float() raised on a score line of the rubric response
ParseRaised ==
    /\ rubric_out.kind = "text"
    /\ rubric_out.lines # <<>>
    /\ ParseLines(rubric_out.lines,
                  [e \in Engines |-> EngineScore(0, 0, 0, 0, 0)], "").raised

\* C17: with both translations present, when the rubric call returns None or
\* raises, or its response cannot be parsed, the scores compared are those of
\* the default table for the features of the text, and no error is reported.
C17_RubricFailureUsesDefaultTable ==
    (pc = "done" /\ arb.scored /\ (rubric_out.kind \in {"none", "raise"} \/ ParseRaised)) =>
        /\ arb.quality_scores = default_quality_scoring(arb.text_features)
        /\ result.error = "None"

\* C18: with both translations present, when the rubric call raises the
\* decision is the length fallback: DeepL's text under 50 characters and
\* DeepSeek's otherwise, confidence 0.7, tagged as a fallback.
C18_RubricRaiseUsesLengthFallback ==
    (pc = "done" /\ rubric_out.kind = "raise") =>
        /\ result.best_translation =
              TextOut(fallback_selection(text, deepl_out.val, deepseek_out.val).text)
        /\ result.confidence = Pct(70)
        /\ result.translation_method \in
              FallbackMethods \cup {"deepl_fallback", "deepseek_fallback"}

(***************************************************************************)
(* KnowledgeBaseLearner.save_updates in two processes on one scene file    *)
(***************************************************************************)
\* a flush that writes its staged expressions only
written_document_staged_only(knowledge_base, staged) ==
    merge_expressions(Doc(<<>>, <<>>), <<staged>>)

\* the document json.dump writes: the one read, with the staged expression
\* merged
written_document(knowledge_base, staged) ==
    merge_expressions(knowledge_base, <<staged>>)

\* Two learners on one directory, each with one expression staged for
\* daily_life (打牌 for p1, 数据 with or without a variant for p2) and about
\* to run save_updates; the scene file is absent, corrupt, empty or holds
\* 得分.
InitFlush ==
    /\ pc = "start"
    /\ text = <<>>
    /\ deepl_out = NotCalled
    /\ deepseek_out = NotCalled
    /\ rubric_out = RubricNotCalled
    /\ result = InitialResult(<<>>)
    /\ arb = NoAnalysis
    /\ scene_call = [pc |-> "idle", text |-> <<>>, result |-> <<>>]
    /\ files \in
        {[NoFiles EXCEPT !.daily_life = d] :
            d \in {MissingFile, CorruptFile, Doc(<<>>, <<>>),
                   Doc(<<Expression(<<24471, 20998>>, <<>>)>>, << <<24471, 20998>> >>)}}
    /\ retriever_kb = NoFiles
    /\ retr_call = NoRetrieve
    /\ learner_kb = NoFiles
    /\ pending_updates = <<>>
    /\ auto_save = FALSE
    /\ calls_made = 0
    /\ learned = NoLearned
    /\ last_flush = NoFlush
    /\ guide_call = NoGuidelines
    /\ prompt_call = NoPrompt
    /\ http_call = NoHttpCall
    /\ loader_call = NoLoad
    /\ mixed_call = NoMixedCall
    /\ chunk_call = NoChunkCall
    /\ flush_procs \in
          {[p \in {"p1", "p2"} |->
              [NoFlushProcs[p] EXCEPT
                  !.pc = "start",
                  !.staged = IF p = "p1"
                             THEN Expression(<<25171, 29260>>, << <<29260>> >>)
                             ELSE Expression(<<25968, 25454>>, variants)]] :
           variants \in {<<>>, << <<25968>> >>}}

\* save_updates of one process up to the end of the read: exists(), open and
\* json.load.  A file that does not parse, as the one another process has
\* just truncated, raises: save_updates returns False.
flush_reads ==
    /\ \E p \in {"p1", "p2"} :
        /\ flush_procs[p].pc = "start"
        /\ flush_procs' =
              [flush_procs EXCEPT
                  ![p] = IF files.daily_life.kind = "corrupt"
                         THEN [@ EXCEPT !.pc = "done", !.ok = FALSE]
                         ELSE [@ EXCEPT
                                  !.pc = "read",
                                  !.knowledge_base =
                                      IF files.daily_life.kind = "missing"
                                      THEN Doc(<<>>, <<>>) ELSE files.daily_life,
                                  !.saw = {q \in {"p1", "p2"} : flush_procs[q].order > 0}]]
    /\ UNCHANGED <<arbVars, sceneVars, files, retrVars, learnVars, guide_call, prompt_call, http_call, loader_call, mixed_call, chunk_call>>

\* open(scene_file, 'w') truncates the file
flush_opens ==
    /\ \E p \in {"p1", "p2"} :
        /\ flush_procs[p].pc = "read"
        /\ flush_procs' = [flush_procs EXCEPT ![p].pc = "opened"]
    /\ files' = [files EXCEPT !.daily_life = CorruptFile]
    /\ UNCHANGED <<arbVars, sceneVars, retrVars, learnVars, guide_call, prompt_call, http_call, loader_call, mixed_call, chunk_call>>

\* json.dump and the close of the file, pending_updates.clear(),
\* loader.reload() and return True.  When another process has written the
\* file since this one opened it, the two writes overlap in the file: it
\* holds this document or bytes that do not parse.  A process that still has
\* the file open will see its own write overlap with this one.
flush_dumps ==
    /\ \E p \in {"p1", "p2"} :
        /\ flush_procs[p].pc = "opened"
        /\ \E written \in
                {written_document(flush_procs[p].knowledge_base, flush_procs[p].staged)}
                \cup (IF flush_procs[p].raced THEN {CorruptFile} ELSE {}) :
            /\ files' = [files EXCEPT !.daily_life = written]
            /\ flush_procs' =
                  [q \in {"p1", "p2"} |->
                      IF q = p
                      THEN [flush_procs[p] EXCEPT
                              !.pc = "done", !.ok = TRUE,
                              !.order = 1 + Cardinality({r \in {"p1", "p2"} :
                                                          flush_procs[r].order > 0}),
                              !.snapshot = load_all_knowledge_bases(files').daily_life]
                      ELSE IF flush_procs[q].pc = "opened"
                      THEN [flush_procs[q] EXCEPT !.raced = TRUE]
                      ELSE flush_procs[q]]
    /\ UNCHANGED <<arbVars, sceneVars, retrVars, learnVars, guide_call, prompt_call, http_call, loader_call, mixed_call, chunk_call>>

SpecFlush == InitFlush /\ [][flush_reads \/ flush_opens \/ flush_dumps]_vars

\* the flush of p reported success and the file, a document, does not hold
\* the expression p had staged
LostUpdate(p) ==
    /\ flush_procs[p].ok
    /\ files.daily_life.kind = "doc"
    /\ \A i \in 1..Len(files.daily_life.expressions) :
          files.daily_life.expressions[i].source # flush_procs[p].staged.source

\* C19: nothing orders the read-modify-write of two flushes of one scene
\* file.  When both have returned and the file is a document, the expression
\* of a flush that reported success is missing from it exactly when the other
\* flush also succeeded, wrote last, and had read the file before the first
\* one wrote it.
C19_UnsynchronizedFlushLosesUpdate ==
    ((\A p \in {"p1", "p2"} : flush_procs[p].pc = "done")
            /\ files.daily_life.kind = "doc") =>
        \A p \in {"p1", "p2"} : \A q \in {"p1", "p2"} \ {p} :
            LostUpdate(p) <=>
                /\ flush_procs[p].ok
                /\ flush_procs[q].ok
                /\ flush_procs[q].order > flush_procs[p].order
                /\ p \notin flush_procs[q].saw

\* both flushes returned True and the file holds the expression of p2 and
\* not that of p1
C19_Witness ==
    /\ \A p \in {"p1", "p2"} : flush_procs[p].pc = "done" /\ flush_procs[p].ok
    /\ LostUpdate("p1")
    /\ ~LostUpdate("p2")

(***************************************************************************)
(* The persisted documents under the operations of one learner             *)
(***************************************************************************)
\* the scene file after an operation is the one before it with entries
\* appended, none of them with a source the file held or with the source of
\* another appended entry
AppendedOnly(before, after) ==
    IF before.kind = "corrupt" THEN after = before
    ELSE IF before.kind = "missing" /\ after.kind = "missing" THEN TRUE
    ELSE /\ after.kind = "doc"
         /\ Len(after.expressions) >= Len(before.expressions)
         /\ \A i \in 1..Len(before.expressions) :
               after.expressions[i] = before.expressions[i]
         /\ \A j \in (Len(before.expressions) + 1)..Len(after.expressions) :
               \A i \in 1..(j - 1) :
                   after.expressions[i].source # after.expressions[j].source

\* C20: every learn_from_translation, add_expression_manually and
\* save_updates of one learner changes each persisted scene document by
\* appending only: the entries it held keep their content and order, and no
\* appended entry has a source that the document held or that was appended
\* before it.
C20_DocumentsAppendOnly ==
    [][\A scene \in SceneNames : AppendedOnly(files[scene], files'[scene])]_vars

(***************************************************************************)
(* The stage-then-flush cycle of the learner                               *)
(***************************************************************************)
\* the scenes of the staged buffer, in the order of its keys
StagedScenes(pending) == [i \in 1..Len(pending) |-> pending[i].scene]

\* the buffer with the expression added under the scene
StagedUnder(pending, scene, expression) ==
    IF \E i \in 1..Len(pending) : pending[i].scene = scene
    THEN [i \in 1..Len(pending) |->
            [scene |-> pending[i].scene,
             expressions |-> IF pending[i].scene = scene
                             THEN pending[i].expressions \o <<expression>>
                             ELSE pending[i].expressions]]
    ELSE pending \o <<[scene |-> scene, expressions |-> <<expression>>]>>

\* the step is a call that staged the buffer given: with auto_save it ran
\* save_updates on that buffer before it returned, which left the buffer
\* staged when it failed; without, it left the buffer staged and the files
\* alone
StagedThenFlushed(staged) ==
    IF auto_save
    THEN /\ last_flush'.called
         /\ last_flush'.staged = StagedScenes(staged)
         /\ ~last_flush'.ok => pending_updates' = staged
    ELSE /\ pending_updates' = staged
         /\ files' = files
         /\ ~last_flush'.called

\* C21: a learn_from_translation that detects a phrase stages it under the
\* scene of the phrase and, with auto_save, runs save_updates before it
\* returns; no other learn_from_translation touches the buffer or the files;
\* a save_updates that returns True has written the file of every staged
\* scene, left the buffer empty and reloaded the learner's loader; one that
\* returns False leaves the staged expressions in the buffer.
C21_StageThenFlush ==
    [][/\ (calls_made' # calls_made /\ learned' # learned) =>
              /\ detect_new_expression(learned'.text, learner_kb) =
                    [found |-> TRUE, source |-> learned'.source,
                     scene |-> learned'.scene,
                     confidence |-> phrase_confidence(learned'.source)]
              /\ StagedThenFlushed(StagedUnder(pending_updates, learned'.scene,
                                               Expression(learned'.source, <<>>)))
       /\ (calls_made' # calls_made /\ learned' = learned
              /\ <<pending_updates, files>>' # <<pending_updates, files>>) =>
              \E scene \in ManualScenes, expression \in ManualExpressions :
                  StagedThenFlushed(StagedUnder(pending_updates, scene, expression))
       /\ (last_flush'.called /\ last_flush'.ok) =>
              /\ pending_updates' = <<>>
              /\ \A i \in 1..Len(last_flush'.staged) :
                    /\ last_flush'.staged[i] \in last_flush'.written
                    /\ files'[last_flush'.staged[i]].kind = "doc"
              /\ learner_kb' = load_all_knowledge_bases(files')
       /\ (last_flush'.called /\ ~last_flush'.ok) =>
              /\ pending_updates' # <<>>
              /\ StagedScenes(pending_updates') = last_flush'.staged
              /\ calls_made' = calls_made => pending_updates' = pending_updates
      ]_vars

\* with auto_save on, a phrase was learned and the save_updates of that call
\* wrote it: the buffer is empty and the loader holds the phrase
C21_Witness ==
    /\ auto_save
    /\ learned.times = 1
    /\ last_flush.called
    /\ last_flush.ok
    /\ last_flush.staged = <<learned.scene>>
    /\ pending_updates = <<>>
    /\ entries_with_source(learner_kb[learned.scene], learned.source) # {}

(***************************************************************************)
(* Properties of detect_new_expression                                     *)
(***************************************************************************)
\* the phrase is a source or a variant of an expression of the document
KnownPhrase(knowledge_base, phrase) ==
    \E i \in 1..Len(knowledge_base.expressions) :
        \/ knowledge_base.expressions[i].source = phrase
        \/ \E v \in 1..Len(knowledge_base.expressions[i].variants) :
              knowledge_base.expressions[i].variants[v] = phrase

\* the phrases of 2 to 6 Chinese characters of the text that the document
\* does not hold, in the order of the text
FreshPhrases(t, knowledge_base) ==
    LET Fresh(phrase) == ~KnownPhrase(knowledge_base, phrase)
    IN SelectSeq(chinese_phrases(t, 1), Fresh)

\* C22: for every text and every state of the learner's loader,
\* detect_new_expression returns nothing when no scene is detected; a
\* candidate it returns has the first detected scene, is a run of 2 to 6
\* Chinese characters of the text, is neither a source nor a variant in the
\* document of that scene, and is the first of the most confident among the
\* phrases extracted.
C22_CandidateIsBestFreshPhrase ==
    \A t \in LearnTexts :
        LET new_expression == detect_new_expression(t, learner_kb)
            source == new_expression.source
            fresh == FreshPhrases(t, learner_kb[new_expression.scene])
        IN /\ detect_scenes(t) = <<>> => ~new_expression.found
           /\ new_expression.found =>
                /\ new_expression.scene = detect_scenes(t)[1].scene
                /\ Len(source) >= 2 /\ Len(source) <= 6
                /\ \A k \in 1..Len(source) : IsCjk(source[k])
                /\ \E i \in 1..Len(t) : SubSeq(t, i, i + Len(source) - 1) = source
                /\ ~KnownPhrase(learner_kb[new_expression.scene], source)
                /\ \E j \in 1..Len(fresh) :
                      /\ fresh[j] = source
                      /\ \A k \in 1..Len(fresh) :
                            /\ phrase_confidence(fresh[k]) <= phrase_confidence(source)
                            /\ k < j => phrase_confidence(fresh[k]) < phrase_confidence(source)

(***************************************************************************)
(* EnhancedDeepSeekClient._generate_enhanced_prompt                        *)
(***************************************************************************)
\* RAG_TOP_K of config.py, its default
RAG_TOP_K == 5

\* The characters of the header of the requirements section, 【翻译要求】
RequirementsHeader == <<12304, 32763, 35793, 35201, 27714, 12305>>

RECURSIVE Flatten(_)
\* The concatenation of a sequence of strings
Flatten(parts) == IF parts = <<>> THEN <<>> ELSE Head(parts) \o Flatten(Tail(parts))

\* The prompt as the string it is: the characters of the texts it quotes (the
\* source text, the sources and variants of the knowledge entries) and of the
\* header of the requirements section are code points; each fixed piece of
\* the templates (instruction -1, scene header -2 and item -3, knowledge
\* header -4, entry -5 and variant -6, guideline header -7 and item -8, body
\* of the requirements -9, source label -10) is one negative number.
section_string(section) ==
    CASE section.kind = "instruction" -> <<-1>>
      [] section.kind = "scenes" -> <<-2>> \o [i \in 1..Len(section.items) |-> -3]
      [] section.kind = "knowledge" ->
            <<-4>> \o Flatten([i \in 1..Len(section.items) |->
                        <<-5>> \o section.items[i].source
                        \o Flatten([v \in 1..Len(section.items[i].variants) |->
                                       <<-6>> \o section.items[i].variants[v]])])
      [] section.kind = "guidelines" -> <<-7>> \o [i \in 1..Len(section.items) |-> -8]
      [] section.kind = "requirements" -> RequirementsHeader \o <<-9>>
      [] section.kind = "source" -> <<-10>> \o section.items

prompt_string(sections) ==
    Flatten([i \in 1..Len(sections) |-> section_string(sections[i])])

\* the mixed-language notice (-11), and the fixed parts of the prompt without
\* RAG (-12)
mixed_lang_section == <<-11>>

RECURSIVE str_replace(_, _, _)
\* Python's s.replace(old, new): every occurrence, left to right, without
\* overlap
str_replace(s, old, new) ==
    IF Len(s) < Len(old) THEN s
    ELSE IF SubSeq(s, 1, Len(old)) = old
    THEN new \o str_replace(SubSeq(s, Len(old) + 1, Len(s)), old, new)
    ELSE <<Head(s)>> \o str_replace(Tail(s), old, new)

\* _generate_fallback_enhanced_prompt
fallback_enhanced_prompt(t) ==
    <<-1>> \o (IF preprocess_for_translation(t).is_mixed_language
               THEN mixed_lang_section ELSE <<>>)
    \o <<-12, -10>> \o t

ClientMaxTextLen == 2

\* _generate_enhanced_prompt(text, source_lang, target_lang) of a client with
\* or without RAG; the texts are those of up to ClientMaxTextLen characters
\* over A 打 牌, alone and followed by 【翻译要求】
deepseek_generate_enhanced_prompt ==
    /\ prompt_call.pc = "idle"
    /\ \E front \in SeqsUpTo({65, 25171, 29260}, ClientMaxTextLen),
          back \in {<<>>, RequirementsHeader}, use_rag \in BOOLEAN :
        LET t == front \o back
            rag_prompt == prompt_string(prompt_sections(t, RAG_TOP_K, retriever_kb))
            mixed_analysis == preprocess_for_translation(t)
        IN prompt_call' =
              [NoPrompt EXCEPT
                  !.pc = "returned", !.text = t, !.use_rag = use_rag,
                  !.top_k = RAG_TOP_K,
                  !.prompt = IF use_rag
                             THEN prompt_sections(t, RAG_TOP_K, retriever_kb) ELSE <<>>,
                  !.rag_prompt = IF use_rag THEN rag_prompt ELSE <<>>,
                  !.final =
                      IF ~use_rag THEN fallback_enhanced_prompt(t)
                      ELSE IF mixed_analysis.is_mixed_language
                      THEN str_replace(rag_prompt, RequirementsHeader,
                                       mixed_lang_section \o RequirementsHeader)
                      ELSE rag_prompt]
    /\ UNCHANGED <<arbVars, sceneVars, files, retrVars, learnVars, guide_call, http_call, loader_call, flush_procs, mixed_call, chunk_call>>

SpecClientPrompt == InitPrompt /\ [][deepseek_generate_enhanced_prompt]_vars

\* the length of the RAG prompt before its requirements section
BeforeRequirements ==
    Len(prompt_string(SubSeq(prompt_call.prompt, 1, Len(prompt_call.prompt) - 2)))

\* C23: for a mixed-language text the prompt of a client with RAG is the RAG
\* prompt with the notice inserted once, immediately before the requirements
\* section, and nothing else changed; for any other text it is the RAG
\* prompt.
C23_NoticeOnceBeforeRequirements ==
    (prompt_call.pc = "returned" /\ prompt_call.use_rag) =>
        IF preprocess_for_translation(prompt_call.text).is_mixed_language
        THEN prompt_call.final =
                SubSeq(prompt_call.rag_prompt, 1, BeforeRequirements)
                \o mixed_lang_section
                \o SubSeq(prompt_call.rag_prompt, BeforeRequirements + 1,
                          Len(prompt_call.rag_prompt))
        ELSE prompt_call.final = prompt_call.rag_prompt

(***************************************************************************)
(* The order of the entries retrieve returns                               *)
(***************************************************************************)
\* the scenes the call searched: those given, or the detected ones whose
\* confidence reaches min_confidence
ScenesSearched ==
    IF retr_call.scenes_given THEN retr_call.scenes
    ELSE LET detected == detect_scenes(retr_call.text)
             Kept(s) == s.confidence * RelOne >= retr_call.min_confidence * SceneOne
         IN [i \in 1..Len(SelectSeq(detected, Kept)) |-> SelectSeq(detected, Kept)[i].scene]

\* the entries that pass min_confidence, as inserted: scene by scene, in the
\* stored order of the expressions
Inserted ==
    all_expressions(retr_call.text, retriever_kb, ScenesSearched, retr_call.min_confidence)

\* the place of the entry inserted as number i when the entries are ordered
\* by descending relevance, equal ones in the order of insertion
PlaceOf(i) ==
    1 + Cardinality({j \in 1..Len(Inserted) :
            \/ Inserted[j].relevance_score > Inserted[i].relevance_score
            \/ Inserted[j].relevance_score = Inserted[i].relevance_score /\ j < i})

\* C24: retrieve returns the first top_k entries of the inserted entries
\* ordered by descending relevance, equal ones in insertion order; without a
\* scenes argument the scenes are the detected ones with confidence at least
\* min_confidence; no scene, or no scene with a loaded document, gives the
\* empty list.
C24_RetrieveStableDescending ==
    retr_call.pc = "returned" =>
        /\ Len(retr_call.results) = Min(retr_call.top_k, Len(Inserted))
        /\ \A i \in 1..Len(Inserted) :
              PlaceOf(i) <= retr_call.top_k => retr_call.results[PlaceOf(i)] = Inserted[i]
        /\ \A i \in 1..Len(retr_call.results) : \A j \in (i + 1)..Len(retr_call.results) :
              retr_call.results[i].relevance_score >= retr_call.results[j].relevance_score
        /\ (\A i \in 1..Len(ScenesSearched) :
                get_knowledge_base(retriever_kb, ScenesSearched[i]).kind # "doc")
              => retr_call.results = <<>>

\* more entries pass than top_k = 2 lets through: the two returned tie,
\* differ, and come in insertion order
C24_Witness ==
    /\ retr_call.pc = "returned"
    /\ Len(Inserted) > retr_call.top_k
    /\ Len(retr_call.results) = 2
    /\ retr_call.results[1].relevance_score = retr_call.results[2].relevance_score
    /\ retr_call.results[1] # retr_call.results[2]
    /\ \E i \in 1..Len(Inserted) : \E j \in (i + 1)..Len(Inserted) :
          retr_call.results[1] = Inserted[i] /\ retr_call.results[2] = Inserted[j]

(***************************************************************************)
(* The parts of a relevance score                                          *)
(***************************************************************************)
\* the offsets at which the characters of s stand in t; a record without a
\* source has nothing that stands in a text
Occurrences(t, s) ==
    IF s = <<>> THEN {}
    ELSE {i \in 0..(Len(t) - Len(s)) : \A j \in 1..Len(s) : t[i + j] = s[j]}

\* an occurrence is a whole word when no word character touches it
WholeWordAt(t, s, i) ==
    /\ i > 0 => ~IsWordChar(t[i])
    /\ i + Len(s) < Len(t) => ~IsWordChar(t[i + Len(s) + 1])

\* what one source or variant adds: whole for a whole-word occurrence, part
\* for an occurrence as a substring only, nothing when it does not occur
OccurrenceScore(t, s, whole, part) ==
    IF Occurrences(t, s) = {} THEN 0
    ELSE IF \E i \in Occurrences(t, s) : WholeWordAt(t, s, i)
         THEN RelFrac(whole, 100) ELSE RelFrac(part, 100)

RECURSIVE VariantsScore(_, _)
VariantsScore(t, variants) ==
    IF variants = <<>> THEN 0
    ELSE OccurrenceScore(t, Head(variants), 50, 30) + VariantsScore(t, Tail(variants))

\* 0.05 for each scene keyword found in the text, 0.2 at most
KeywordsScore(t, keywords) ==
    Min(Cardinality({k \in 1..Len(keywords) : Occurrences(t, keywords[k]) # {}})
            * RelFrac(5, 100),
        RelFrac(20, 100))

\* C25: the relevance of a returned record is min(1.0, S + V + Q + K): S is 0.6
\* for a whole-word occurrence of the source, 0.4 for a substring-only one, 0
\* when the source does not occur; V adds 0.5 or 0.3 for each variant in the
\* same way; Q lies between 0 and 0.2; K is 0.05 for each scene keyword found,
\* 0.2 at most.  A record whose source and variants do not occur gets nothing
\* from S and V.
C25_RelevanceIsSumOfParts ==
    retr_call.pc = "returned" =>
        \A n \in 1..Len(retr_call.results) :
            LET entry == retr_call.results[n]
                t == retr_call.text
                S == OccurrenceScore(t, entry.source, 60, 40)
                V == VariantsScore(t, entry.variants)
                Q == IF entry.source = <<>> THEN 0 ELSE similarity_score(entry.source, t)
                K == KeywordsScore(t, get_knowledge_base(retriever_kb, entry.scene).keywords)
            IN /\ Q >= 0 /\ Q <= RelFrac(20, 100)
               /\ entry.relevance_score = Min(RelOne, S + V + Q + K)

\* the same statement for the records that have a source
C25_RelevanceOfRecordsWithSource ==
    retr_call.pc = "returned" =>
        \A n \in 1..Len(retr_call.results) :
            LET entry == retr_call.results[n]
                t == retr_call.text
                S == OccurrenceScore(t, entry.source, 60, 40)
                V == VariantsScore(t, entry.variants)
                Q == similarity_score(entry.source, t)
                K == KeywordsScore(t, get_knowledge_base(retriever_kb, entry.scene).keywords)
            IN entry.source # <<>> =>
                  /\ Q >= 0 /\ Q <= RelFrac(20, 100)
                  /\ entry.relevance_score = Min(RelOne, S + V + Q + K)

(***************************************************************************)
(* Which scenes detect_scenes reports, and with what confidence            *)
(***************************************************************************)
\* the number of keywords of the scene that are substrings of the text
Hits(scene, t) ==
    Cardinality({k \in 1..Len(scene_keywords[scene]) :
                    Occurrences(t, scene_keywords[scene][k]) # {}})

\* hits/|keywords| * 0.8 + min(weight/10, 0.2), in scene units
HitScore(scene, t) ==
    (8 * Hits(scene, t) * SceneOne) \div (10 * Len(scene_keywords[scene]))
    + Min((scene_weight(scene) * SceneOne) \div 10, (2 * SceneOne) \div 10)

\* the entries of the returned list that name the scene
ReportedAs(scene) ==
    {i \in 1..Len(scene_call.result) : scene_call.result[i].scene = scene}

\* C26: a scene is in the list detect_scenes returns exactly when one of its
\* keywords is a substring of the text and hits/|keywords| * 0.8 +
\* min(weight/10, 0.2) is at least 0.15; its confidence is that score; a text
\* with no keyword of any scene gives the empty list.
C26_SceneListedIffKeywordHit ==
    scene_call.pc = "returned" =>
        /\ \A scene \in DOMAIN scene_keywords :
              /\ ReportedAs(scene) # {}
                    <=> /\ Hits(scene, scene_call.text) > 0
                        /\ 100 * HitScore(scene, scene_call.text) >= 15 * SceneOne
              /\ \A i \in ReportedAs(scene) :
                    scene_call.result[i].confidence = HitScore(scene, scene_call.text)
        /\ \A i \in 1..Len(scene_call.result) :
              scene_call.result[i].scene \in DOMAIN scene_keywords
        /\ (\A scene \in DOMAIN scene_keywords : Hits(scene, scene_call.text) = 0)
              => scene_call.result = <<>>

\* 数据库: technology is listed for 数据库 and academic for 数据, daily_life
\* has no keyword in the text and is absent
C26_Witness ==
    /\ scene_call.pc = "returned"
    /\ Hits("technology", scene_call.text) = 1
    /\ Hits("academic", scene_call.text) = 1
    /\ Hits("daily_life", scene_call.text) = 0
    /\ ReportedAs("technology") # {}
    /\ ReportedAs("academic") # {}
    /\ ReportedAs("daily_life") = {}

(***************************************************************************)
(* A retriever and a learner on the same directory                         *)
(***************************************************************************)
\* the defaults of retrieve's top_k and min_confidence
retrieve_top_k == 5

retrieve_min_confidence == RelFrac(15, 100)

\* a KnowledgeRetriever and then a KnowledgeBaseLearner constructed on the same
\* directory: each has a loader of its own, and each loader has read the files
InitShared ==
    /\ pc = "start"
    /\ text = <<>>
    /\ deepl_out = NotCalled
    /\ deepseek_out = NotCalled
    /\ rubric_out = RubricNotCalled
    /\ result = InitialResult(<<>>)
    /\ arb = NoAnalysis
    /\ scene_call = [pc |-> "idle", text |-> <<>>, result |-> <<>>]
    /\ files \in LearnFileSets
    /\ retriever_kb = load_all_knowledge_bases(files)
    /\ retr_call = NoRetrieve
    /\ learner_kb = load_all_knowledge_bases(files)
    /\ pending_updates = <<>>
    /\ auto_save \in BOOLEAN
    /\ calls_made = 0
    /\ learned = NoLearned
    /\ last_flush = NoFlush
    /\ guide_call = NoGuidelines
    /\ prompt_call = NoPrompt
    /\ http_call = NoHttpCall
    /\ loader_call = NoLoad
    /\ flush_procs = NoFlushProcs
    /\ mixed_call = NoMixedCall
    /\ chunk_call = NoChunkCall

\* retriever.retrieve(text): the retriever reads its own loader's snapshot
retrieve_text ==
    /\ \E t \in LearnTexts :
        retr_call' =
            [pc |-> "returned", text |-> t, scenes |-> <<>>, scenes_given |-> FALSE,
             top_k |-> retrieve_top_k, min_confidence |-> retrieve_min_confidence,
             results |-> retrieve_result(t, retriever_kb, FALSE, <<>>,
                                         retrieve_top_k, retrieve_min_confidence)]
    /\ UNCHANGED <<arbVars, sceneVars, files, retriever_kb, learnVars, moreVars>>

SpecShared ==
    InitShared /\ [][learn_from_translation \/ save_updates \/ retrieve_text]_vars

\* the entries of a result that carry the learned phrase under its scene
LearnedAmong(results) ==
    {i \in 1..Len(results) :
        results[i].source = learned.source /\ results[i].scene = learned.scene}

\* the last flush returned True and the learned phrase is in its scene's file
LearnedIsPersisted ==
    /\ last_flush.called
    /\ last_flush.ok
    /\ learned # NoLearned
    /\ learned.scene \in last_flush.written
    /\ files[learned.scene].kind = "doc"
    /\ entries_with_source(files[learned.scene], learned.source) # {}

\* C27: after a flush that returned True, a retrieve through the retriever
\* constructed on the directory before the flush returns the newly persisted
\* expression for a text that contains it, whenever a retrieve over the
\* files as they now are returns it.
C27_RetrieverSeesFlushedExpression ==
    [][(/\ retr_call' # retr_call
        /\ LearnedIsPersisted
        /\ Occurrences(retr_call'.text, learned.source) # {}
        /\ LearnedAmong(retrieve_result(retr_call'.text, load_all_knowledge_bases(files),
                                        FALSE, <<>>, retrieve_top_k,
                                        retrieve_min_confidence)) # {})
       => LearnedAmong(retr_call'.results) # {}]_vars

(***************************************************************************)
(* The mixed-language signal                                               *)
(***************************************************************************)
MixedMaxTextLen == 4

\* A, the digit 1, a space and 我
MixedAlphabet == {65, 49, 32, 25105}

\* one call preprocess_for_translation(text, source_lang, target_lang)
preprocess_call ==
    /\ mixed_call.pc = "idle"
    /\ \E t \in SeqsUpTo(MixedAlphabet, MixedMaxTextLen) :
        LET analysis == preprocess_for_translation(t)
        IN mixed_call' =
               [pc |-> "returned", text |-> t,
                is_mixed_language |-> analysis.is_mixed_language,
                chinese_words |-> analysis.chinese_words]
    /\ UNCHANGED <<arbVars, sceneVars, files, retrVars, learnVars, guide_call, prompt_call, http_call, loader_call, flush_procs, chunk_call>>

SpecMixed == Init /\ [][preprocess_call]_vars

\* a Chinese character: a CJK unified ideograph, of the basic block or of
\* extension A or B
IsChineseChar(c) ==
    \/ c >= 19968 /\ c <= 40959
    \/ c >= 13312 /\ c <= 19903
    \/ c >= 131072 /\ c <= 173791

\* C28: is_mixed_language is true exactly when the text has a Latin letter
\* and a Chinese character, every entry of chinese_words is made of Chinese
\* characters only, and a text without a Chinese character is not mixed.
C28_MixedIffBothScripts ==
    mixed_call.pc = "returned" =>
        LET t == mixed_call.text
            has_latin == \E i \in 1..Len(t) : IsAsciiLetter(t[i])
            has_chinese == \E i \in 1..Len(t) : IsChineseChar(t[i])
        IN /\ mixed_call.is_mixed_language <=> (has_latin /\ has_chinese)
           /\ \A k \in 1..Len(mixed_call.chinese_words) :
                 \A i \in 1..Len(mixed_call.chinese_words[k]) :
                     IsChineseChar(mixed_call.chinese_words[k][i])

\* the same statement with the digits and the other characters from U+0030
\* to U+2A6D counted as Chinese wherever no Latin letter touches their run
C28_MixedIffLatinAndThirdClass ==
    mixed_call.pc = "returned" =>
        LET t == mixed_call.text
            has_latin == \E i \in 1..Len(t) : IsAsciiLetter(t[i])
            Counted(i) ==
                \/ IsChineseChar(t[i]) /\ t[i] <= 40959
                \/ /\ t[i] >= 48 /\ t[i] <= 10861
                   /\ \A j \in 1..Len(t) :
                         (\A m \in Min(i, j)..Max({i, j}) : t[m] >= 48 /\ t[m] <= 10861)
                            => ~IsAsciiLetter(t[j])
        IN mixed_call.is_mixed_language <=> (has_latin /\ \E i \in 1..Len(t) : Counted(i))

(***************************************************************************)
(* Calling save_updates again after it failed                              *)
(***************************************************************************)
\* the last save_updates returned False after it had written some scene
FailedAfterWriting ==
    /\ last_flush.called
    /\ ~last_flush.ok
    /\ last_flush.written # {}
    /\ pending_updates # <<>>

\* save_updates() called again from this state, no file operation of its own
\* being made to fail
FlushAgain == save_updates_result(pending_updates, files, learner_kb, NoFault)

\* every candidate that was staged is in its scene's file, once
EveryCandidateOnce(pending, fs) ==
    \A i \in 1..Len(pending) : \A k \in 1..Len(pending[i].expressions) :
        /\ fs[pending[i].scene].kind = "doc"
        /\ Cardinality(entries_with_source(fs[pending[i].scene],
                                           pending[i].expressions[k].source)) = 1

\* C29: when save_updates has returned False after writing some of the
\* staged scenes, calling it again returns True and leaves every staged
\* candidate in its scene's file, none of them twice.
C29_FlushAgainPersists ==
    FailedAfterWriting =>
        /\ FlushAgain.report.ok
        /\ FlushAgain.pending = <<>>
        /\ EveryCandidateOnce(pending_updates, FlushAgain.files)

\* the same statement for a failure that left the failing scene's file
\* readable
C29_FlushAgainPersistsReadable ==
    (FailedAfterWriting /\ files[last_flush.failed].kind # "corrupt") =>
        /\ FlushAgain.report.ok
        /\ FlushAgain.pending = <<>>
        /\ EveryCandidateOnce(pending_updates, FlushAgain.files)

\* a failure that left the file readable, after a scene had been written
C29_ReadableFailure ==
    FailedAfterWriting /\ files[last_flush.failed].kind # "corrupt"

(***************************************************************************)
(* split_text_into_chunks                                                  *)
(***************************************************************************)
max_chunk_size == 1000

overlap_size == 100

\* the characters of '。！？.!?'
SentenceEnds == {12290, 65281, 65311, 46, 33, 63}

\* the characters of ' \n\t'
SplitSpaces == {32, 10, 9}

\* the characters str.strip() removes
IsWhitespace(c) ==
    c \in {9, 10, 11, 12, 13, 28, 29, 30, 31, 32, 133, 160, 5760, 8232, 8233, 8239,
           8287, 12288} \cup (8192..8202)

\* s.strip()
strip(s) ==
    LET kept == {i \in 1..Len(s) : ~IsWhitespace(s[i])}
    IN IF kept = {} THEN <<>> ELSE SubSeq(s, MinOf(kept), Max(kept))

\* where the chunk that starts at start ends; start and end are offsets from 0
chunk_end(t, start) ==
    LET end == start + max_chunk_size
        half == start + max_chunk_size \div 2
        \* range(end, max(half, end - 200), -1), text[i] a sentence end
        sentence_ends == {i \in (Max({half, end - 200}) + 1)..end : t[i + 1] \in SentenceEnds}
        \* range(end, max(half, end - 100), -1), text[i] a space
        spaces == {i \in (Max({half, end - 100}) + 1)..end : t[i + 1] \in SplitSpaces}
    IN IF end >= Len(t) THEN end
       ELSE IF sentence_ends # {} THEN Max(sentence_ends) + 1
       ELSE IF spaces # {} THEN Max(spaces)
       ELSE end

RECURSIVE chunks_from(_, _)
\* the while loop of split_text_into_chunks from the offset start
chunks_from(t, start) ==
    IF start >= Len(t) THEN <<>>
    ELSE LET end == chunk_end(t, start)
             chunk == strip(SubSeq(t, start + 1, Min(end, Len(t))))
         IN (IF chunk # <<>> THEN <<chunk>> ELSE <<>>)
            \o chunks_from(t, Max({start + 1, end - overlap_size}))

split_text_into_chunks(t) ==
    IF Len(t) <= max_chunk_size THEN <<t>> ELSE chunks_from(t, 0)

\* the texts are at most this much longer than max_chunk_size
ChunkMaxExtra == 3

\* the places of a text that may hold a character other than "a": the ends of
\* the two windows split_text_into_chunks searches, as offsets from 0
ChunkMarks == {max_chunk_size - 200, max_chunk_size - 199, max_chunk_size - 99, max_chunk_size}

\* the text of n characters "a" with the marks at their places
MarkedText(n, marks) ==
    [i \in 1..n |-> IF (i - 1) \in ChunkMarks THEN marks[i - 1] ELSE 97]

\* one call split_text_into_chunks(text)
split_call ==
    /\ chunk_call.pc = "idle"
    /\ \E n \in {0} \cup ((max_chunk_size - 1)..(max_chunk_size + ChunkMaxExtra)) :
        \E marks \in [ChunkMarks -> {97, 12290, 32}] :
            chunk_call' = [pc |-> "returned", text |-> MarkedText(n, marks),
                           chunks |-> split_text_into_chunks(MarkedText(n, marks))]
    /\ UNCHANGED <<arbVars, sceneVars, files, retrVars, learnVars, guide_call, prompt_call, http_call, loader_call, flush_procs, mixed_call>>

SpecChunk == Init /\ [][split_call]_vars

\* C30: split_text_into_chunks returns [text] for a text of at most
\* max_chunk_size characters, and for a longer text no chunk has more than
\* max_chunk_size characters.
C30_ChunksWithinMaxSize ==
    chunk_call.pc = "returned" =>
        IF Len(chunk_call.text) <= max_chunk_size
        THEN chunk_call.chunks = <<chunk_call.text>>
        ELSE \A k \in 1..Len(chunk_call.chunks) :
                Len(chunk_call.chunks[k]) <= max_chunk_size

\* the same statement with one character more allowed to a chunk
C30_ChunksWithinMaxSizePlusOne ==
    chunk_call.pc = "returned" =>
        IF Len(chunk_call.text) <= max_chunk_size
        THEN chunk_call.chunks = <<chunk_call.text>>
        ELSE \A k \in 1..Len(chunk_call.chunks) :
                Len(chunk_call.chunks[k]) <= max_chunk_size + 1

====
